---- MODULE Spec2Model ----
(***************************************************************************)
(* Model of the async-to-generator transformation pass.                    *)
(*                                                                         *)
(* The syntax tree is a tree of uniform records.  Every node carries       *)
(*   kind          the swc node type (FnDecl, Arrow, Await, Block, ...)     *)
(*   sym           the identifier / property name the node carries          *)
(*                 ("" stands for None, e.g. an anonymous FnExpr)           *)
(*   is_async, is_generator   the flags of Function / ArrowExpr             *)
(*   delegate      the delegate flag of a YieldExpr                         *)
(*   params        the parameters (Param records for Function, patterns     *)
(*                 for ArrowExpr); patterns are plain binding identifiers   *)
(*   kids          the child nodes, in the field order swc visits them      *)
(* A FnDecl, Fn (FnExpr), ClassMethod, MethodProp holds its Function        *)
(* inline; its body (Option<BlockStmt>) is kids = <<>> (None) or            *)
(* kids = <<Block>>.  A Block's kids are its Vec<Stmt>, the Module's kids   *)
(* are its Vec<ModuleItem>.                                                 *)
(***************************************************************************)
EXTENDS Integers, Sequences, FiniteSets, TLC

VARIABLES
    tree,        \* the program being mutated in place by the walker
    input,       \* the program as it was handed to the pass
    stack,       \* the walker's recursion: frames [path, phase], top first
    scopes,      \* ScopeStack.stack : Vec<Vec<Stmt>>
    count,       \* RefCounter.count
    pass,        \* which run of the pass this is (each run has a new walker)
    first,       \* history: the output of the first run (<<>> until it ends)
    refs,        \* history: the reference names used by structural rewrites
    splice,      \* history: the last Hoist Placement [fn, list, hoisted, result]
    last         \* history: the last call of a construct transformer

vars == <<tree, input, stack, scopes, count, pass, first, refs, splice, last>>

None == ""

(***************************************************************************)
(* Node constructors.                                                      *)
(***************************************************************************)
Node(kind, sym, kids) ==
    [kind |-> kind, sym |-> sym, is_async |-> FALSE, is_generator |-> FALSE,
     delegate |-> FALSE, params |-> <<>>, kids |-> kids]

Function(kind, sym, is_async, is_generator, params, kids) ==
    [kind |-> kind, sym |-> sym, is_async |-> is_async,
     is_generator |-> is_generator, delegate |-> FALSE, params |-> params,
     kids |-> kids]

\* Param { span, decorators: vec![], pat }
Param(pat) == [pat |-> pat, decorators |-> <<>>]

ThisExpr == Node("This", None, <<>>)
AwaitExpr(arg) == Node("Await", None, <<arg>>)
YieldExpr(arg, delegate) == [Node("Yield", None, <<arg>>) EXCEPT !.delegate = delegate]

(***************************************************************************)
(* ast_builders.rs                                                         *)
(***************************************************************************)
ident(name) == Node("Ident", name, <<>>)

block(stmts) == Node("Block", None, stmts)

return_stmt(expr) == Node("Return", None, <<expr>>)

expr_stmt(expr) == Node("ExprStmt", None, <<expr>>)

var_decl(name, init) == Node("VarDecl", name, <<init>>)

this_capture == var_decl("_this", ThisExpr)

fn_expr(name, params, body, is_generator) ==
    Function("Fn", name, FALSE, is_generator, params, <<body>>)

generator_fn_expr(params, body) == fn_expr(None, params, body, TRUE)

regular_fn_expr(name, body) == fn_expr(name, <<>>, body, FALSE)

fn_decl(name, body) == Function("FnDecl", name, FALSE, FALSE, <<>>, <<body>>)

call_expr(callee, args) == Node("Call", None, <<callee>> \o args)

member_expr(obj, method) == Node("Member", method, <<obj>>)

apply_call(wrapper) ==
    call_expr(member_expr(wrapper, "apply"), <<ThisExpr, ident("arguments")>>)

immediate_call(wrapper) == call_expr(wrapper, <<>>)

ng_async_wrapper(generator_fn) ==
    call_expr(ident("_ngAsyncToGenerator"), <<generator_fn>>)

assign_expr(left, right) == Node("Assign", left, <<right>>)

iife(stmts) == immediate_call(regular_fn_expr(None, block(stmts)))

\* The two builders below are imported by transforms/fn_expr.rs but are not
\* defined in ast_builders.rs; they follow the forms documented in the
\* header of fn_expr.rs:  (function(_this) { ... })(this)
\* and  wrapper.apply(_this, arguments).
iife_with_this_param(stmts) ==
    call_expr(fn_expr(None, <<Param("_this")>>, block(stmts), FALSE), <<ThisExpr>>)

apply_call_with_captured_this(wrapper) ==
    call_expr(member_expr(wrapper, "apply"), <<ident("_this"), ident("arguments")>>)

(***************************************************************************)
(* Node classes of the swc visitor.                                        *)
(***************************************************************************)
\* Nodes that hold a swc `Function` (visit_function / visit_mut_function).
\* (FnDecl, FnExpr, ClassMethod, MethodProp and PrivateMethod have a
\* `function` field; constructors, getters and setters do not.)
FunctionHolders == {"FnDecl", "Fn", "ClassMethod", "MethodProp", "PrivateMethod"}

\* Nodes of type Expr (visit_expr / visit_mut_expr is called on them).
ExprKinds == {"Ident", "This", "Await", "Yield", "Call", "Member", "Arrow",
              "Fn", "Assign", "Object"}

IsExpr(n) == n.kind \in ExprKinds

(***************************************************************************)
(* transforms/helpers.rs                                                   *)
(***************************************************************************)
\* Mutant: the operand of a replaced await is not visited.
RECURSIVE AwaitToYieldVisitor_outermost(_)
AwaitToYieldVisitor_outermost(n) ==
    IF n.kind \in FunctionHolders \/ n.kind = "Arrow"
    THEN n
    ELSE IF n.kind = "Await"
         THEN YieldExpr(n.kids[1], FALSE)
         ELSE [n EXCEPT !.kids =
                  [i \in 1..Len(n.kids) |-> AwaitToYieldVisitor_outermost(n.kids[i])]]

RECURSIVE AwaitToYieldVisitor(_)
AwaitToYieldVisitor(n) ==
    IF n.kind \in FunctionHolders \/ n.kind = "Arrow"
    THEN n
    ELSE LET visited == [n EXCEPT !.kids =
                            [i \in 1..Len(n.kids) |-> AwaitToYieldVisitor(n.kids[i])]]
         IN  IF visited.kind = "Await"
             THEN YieldExpr(visited.kids[1], FALSE)
             ELSE visited

RECURSIVE HasAwaitVisitor(_)
HasAwaitVisitor(n) ==
    IF n.kind = "Await"
    THEN TRUE
    ELSE IF n.kind \in FunctionHolders \/ n.kind = "Arrow"
         THEN FALSE
         ELSE \E i \in 1..Len(n.kids) : HasAwaitVisitor(n.kids[i])

\* Mutant: the check is skipped and every async construct is rewritten.
HasAwaitVisitor_check_skipped(body) == TRUE

HasAwaitVisitor_check(body) == HasAwaitVisitor(body)

\* Mutant: arrows are skipped like functions.
RECURSIVE HasThisVisitor_skips_arrows(_)
HasThisVisitor_skips_arrows(n) ==
    IF n.kind = "This"
    THEN TRUE
    ELSE IF n.kind \in FunctionHolders \/ n.kind = "Arrow"
         THEN FALSE
         ELSE \E i \in 1..Len(n.kids) : HasThisVisitor_skips_arrows(n.kids[i])

RECURSIVE HasThisVisitor(_)
HasThisVisitor(n) ==
    IF n.kind = "This"
    THEN TRUE
    ELSE IF n.kind \in FunctionHolders
         THEN FALSE
         ELSE \E i \in 1..Len(n.kids) : HasThisVisitor(n.kids[i])

HasThisVisitor_check(body) == HasThisVisitor(body)

\* Mutant: arrows are skipped like functions.
RECURSIVE ThisCaptureVisitor_skips_arrows(_)
ThisCaptureVisitor_skips_arrows(n) ==
    IF n.kind = "This"
    THEN [node |-> ident("_this"), needs_this |-> TRUE]
    ELSE IF n.kind \in FunctionHolders \/ n.kind = "Arrow"
         THEN [node |-> n, needs_this |-> FALSE]
         ELSE LET sub == [i \in 1..Len(n.kids) |-> ThisCaptureVisitor_skips_arrows(n.kids[i])]
              IN  [node |-> [n EXCEPT !.kids = [i \in 1..Len(n.kids) |-> sub[i].node]],
                   needs_this |-> \E i \in 1..Len(n.kids) : sub[i].needs_this]

\* Returns [node, needs_this]: the rewritten node and the visitor's flag.
RECURSIVE ThisCaptureVisitor(_)
ThisCaptureVisitor(n) ==
    IF n.kind = "This"
    THEN [node |-> ident("_this"), needs_this |-> TRUE]
    ELSE IF n.kind \in FunctionHolders
         THEN [node |-> n, needs_this |-> FALSE]
         ELSE LET sub == [i \in 1..Len(n.kids) |-> ThisCaptureVisitor(n.kids[i])]
              IN  [node |-> [n EXCEPT !.kids = [i \in 1..Len(n.kids) |-> sub[i].node]],
                   needs_this |-> \E i \in 1..Len(n.kids) : sub[i].needs_this]

\* Mutant: the flag of the visitor is returned whatever capture_this is.
create_generator_function_flag_unmasked(params, body, capture_this) ==
    LET yielded  == AwaitToYieldVisitor(body)
        captured == ThisCaptureVisitor(yielded)
        new_body == IF capture_this THEN captured.node ELSE yielded
    IN  [func |-> Function("Function", None, FALSE, TRUE, params, <<new_body>>),
         needs_this |-> captured.needs_this]

\* Returns [func, needs_this].
create_generator_function(params, body, capture_this) ==
    LET yielded  == AwaitToYieldVisitor(body)
        captured == ThisCaptureVisitor(yielded)
        new_body == IF capture_this THEN captured.node ELSE yielded
    IN  [func |-> Function("Function", None, FALSE, TRUE, params, <<new_body>>),
         needs_this |-> capture_this /\ captured.needs_this]

(***************************************************************************)
(* transforms/fn_decl.rs                                                   *)
(* Returns [node, helper]: the declaration as left in the tree and the     *)
(* Option<FnDecl> result (<<>> for None, <<h>> for Some(h)).               *)
(***************************************************************************)
\* Mutant: the helper takes the name of the function itself.
helper_name_unprefixed(func_name) == func_name

\* format!("_{}", func_name)
helper_name_of(func_name) == "_" \o func_name

\* Mutant: the generator is built with the capture of `this` enabled.
transform_fn_decl_captures(decl) ==
    IF ~decl.is_async
    THEN [node |-> decl, helper |-> <<>>]
    ELSE IF decl.kids # <<>> /\ ~HasAwaitVisitor_check(decl.kids[1])
    THEN [node |-> [decl EXCEPT !.is_async = FALSE], helper |-> <<>>]
    ELSE IF decl.kids = <<>>
    THEN [node |-> decl, helper |-> <<>>]
    ELSE LET helper_name    == helper_name_of(decl.sym)
             gen            == create_generator_function(decl.params, decl.kids[1], TRUE)
             generator_expr == generator_fn_expr(gen.func.params, gen.func.kids[1])
             helper_fn      == fn_decl(helper_name, block(<<
                                  expr_stmt(assign_expr(helper_name,
                                                        ng_async_wrapper(generator_expr))),
                                  return_stmt(apply_call(ident(helper_name))) >>))
         IN  [node |-> [decl EXCEPT
                            !.is_async = FALSE,
                            !.is_generator = FALSE,
                            !.params = <<>>,
                            !.kids = <<block(<<return_stmt(apply_call(ident(helper_name)))>>)>>],
              helper |-> <<helper_fn>>]

\* Mutant: the async flag is cleared before the body is looked at.
transform_fn_decl_clears_flag(decl) ==
    [node |-> [decl EXCEPT !.is_async = FALSE], helper |-> <<>>]

transform_fn_decl(decl) ==
    IF ~decl.is_async
    THEN [node |-> decl, helper |-> <<>>]
    ELSE IF decl.kids # <<>> /\ ~HasAwaitVisitor_check(decl.kids[1])
    THEN [node |-> [decl EXCEPT !.is_async = FALSE], helper |-> <<>>]
    ELSE IF decl.kids = <<>>
    THEN [node |-> decl, helper |-> <<>>]
    ELSE LET helper_name    == helper_name_of(decl.sym)
             gen            == create_generator_function(decl.params, decl.kids[1], FALSE)
             generator_expr == generator_fn_expr(gen.func.params, gen.func.kids[1])
             helper_fn      == fn_decl(helper_name, block(<<
                                  expr_stmt(assign_expr(helper_name,
                                                        ng_async_wrapper(generator_expr))),
                                  return_stmt(apply_call(ident(helper_name))) >>))
         IN  [node |-> [decl EXCEPT
                            !.is_async = FALSE,
                            !.is_generator = FALSE,
                            !.params = <<>>,
                            !.kids = <<block(<<return_stmt(apply_call(ident(helper_name)))>>)>>],
              helper |-> <<helper_fn>>]

(***************************************************************************)
(* transforms/fn_expr.rs                                                   *)
(* Both return [node, result]: the construct as left behind and the        *)
(* Option<Expr> replacement.                                               *)
(***************************************************************************)
\* Mutant: the expression body becomes an expression statement.
ExtractBody_no_return(arrow) ==
    IF arrow.kids[1].kind = "Block"
    THEN arrow.kids[1]
    ELSE block(<<expr_stmt(arrow.kids[1])>>)

\* "Extract body": a block body is taken as it is, an expression body
\* becomes the block `{ return e; }`
ExtractBody(arrow) ==
    IF arrow.kids[1].kind = "Block"
    THEN arrow.kids[1]
    ELSE block(<<return_stmt(arrow.kids[1])>>)

transform_arrow_fn(arrow, ref_name) ==
    IF ~arrow.is_async
    THEN [node |-> arrow, result |-> <<>>]
    ELSE LET has_await == IF arrow.kids[1].kind = "Block"
                          THEN HasAwaitVisitor_check(arrow.kids[1])
                          ELSE arrow.kids[1].kind = "Await"
         IN  IF ~has_await
             THEN [node |-> [arrow EXCEPT !.is_async = FALSE], result |-> <<>>]
             ELSE LET body == ExtractBody(arrow)
                      uses_this == HasThisVisitor_check(body)
                      params == [i \in 1..Len(arrow.params) |-> Param(arrow.params[i])]
                      gen == create_generator_function(params, body, uses_this)
                      generator_expr == generator_fn_expr(gen.func.params, gen.func.kids[1])
                      taken == [arrow EXCEPT !.params = <<>>,
                                             !.kids = <<IF arrow.kids[1].kind = "Block"
                                                        THEN block(<<>>)
                                                        ELSE Node("Invalid", None, <<>>)>>]
                  IN  IF uses_this
                      THEN [node |-> taken,
                            result |-> <<iife_with_this_param(<<
                                var_decl(ref_name, ng_async_wrapper(generator_expr)),
                                return_stmt(regular_fn_expr(None, block(<<
                                    return_stmt(apply_call_with_captured_this(
                                        ident(ref_name)))>>))) >>)>>]
                      ELSE [node |-> taken,
                            result |-> <<iife(<<
                                var_decl(ref_name, ng_async_wrapper(generator_expr)),
                                return_stmt(regular_fn_expr(None, block(<<
                                    return_stmt(apply_call(ident(ref_name)))>>))) >>)>>]

transform_fn_expr(fn, ref_name) ==
    IF ~fn.is_async
    THEN [node |-> fn, result |-> <<>>]
    ELSE IF fn.kids # <<>> /\ ~HasAwaitVisitor_check(fn.kids[1])
    THEN [node |-> [fn EXCEPT !.is_async = FALSE], result |-> <<>>]
    ELSE IF fn.kids = <<>>
    THEN [node |-> fn, result |-> <<>>]
    ELSE LET original_ident == fn.sym
             gen == create_generator_function(fn.params, fn.kids[1], FALSE)
             generator_expr == generator_fn_expr(gen.func.params, gen.func.kids[1])
         IN  [node |-> [fn EXCEPT !.sym = None, !.params = <<>>, !.kids = <<>>],
              result |-> <<iife(<<
                  var_decl(ref_name, ng_async_wrapper(generator_expr)),
                  return_stmt(regular_fn_expr(original_ident, block(<<
                      return_stmt(apply_call(ident(ref_name)))>>))) >>)>>]

(***************************************************************************)
(* transforms/method.rs                                                    *)
(***************************************************************************)
\* Mutant: the capture statement is emitted whether or not `this` was replaced.
transform_method_always_captures(body) ==
    LET gen == create_generator_function(<<>>, body, TRUE)
        generator_expr == generator_fn_expr(gen.func.params, gen.func.kids[1])
    IN  <<this_capture, return_stmt(immediate_call(ng_async_wrapper(generator_expr)))>>

\* MethodTransformResult.stmts
transform_method(body) ==
    LET gen == create_generator_function(<<>>, body, TRUE)
        generator_expr == generator_fn_expr(gen.func.params, gen.func.kids[1])
    IN  (IF gen.needs_this THEN <<this_capture>> ELSE <<>>)
        \o <<return_stmt(immediate_call(ng_async_wrapper(generator_expr)))>>

\* Mutant: the test of the async flag is missing.
transform_class_method_any(method) ==
    IF method.kids = <<>>
    THEN method
    ELSE [method EXCEPT !.is_async = FALSE,
                        !.params = <<>>,
                        !.kids = <<block(transform_method(method.kids[1]))>>]

transform_class_method(method) ==
    IF ~method.is_async
    THEN method
    ELSE IF method.kids # <<>> /\ ~HasAwaitVisitor_check(method.kids[1])
    THEN [method EXCEPT !.is_async = FALSE]
    ELSE IF method.kids = <<>>
    THEN method
    ELSE [method EXCEPT !.is_async = FALSE,
                        !.params = <<>>,
                        !.kids = <<block(transform_method(method.kids[1]))>>]

transform_object_method(method_prop) ==
    IF ~method_prop.is_async
    THEN method_prop
    ELSE IF method_prop.kids # <<>> /\ ~HasAwaitVisitor_check(method_prop.kids[1])
    THEN [method_prop EXCEPT !.is_async = FALSE]
    ELSE IF method_prop.kids = <<>>
    THEN method_prop
    ELSE [method_prop EXCEPT !.is_async = FALSE,
                             !.params = <<>>,
                             !.kids = <<block(transform_method(method_prop.kids[1]))>>]

(***************************************************************************)
(* visitor.rs : RefCounter, ScopeStack, Hoist Placement                    *)
(***************************************************************************)
\* Mutant: the counter's value never reaches the name.
RefCounter_next_unsuffixed(c) == [name |-> "_ref", count |-> c + 1]

\* RefCounter::next : [name, count] - the name handed out and the new count
RefCounter_next(c) ==
    [name  |-> IF c = 0 THEN "_ref" ELSE "_ref" \o ToString(c),
     count |-> c + 1]

ScopeStack_new == << <<>> >>

\* Mutant: entering a list pushes no frame.
ScopeStack_enter_nothing(s) == s

ScopeStack_enter(s) == Append(s, <<>>)

\* ScopeStack::exit : [stack, hoisted]; pop().unwrap_or_default()
ScopeStack_exit(s) ==
    IF s = <<>>
    THEN [stack |-> s, hoisted |-> <<>>]
    ELSE [stack |-> SubSeq(s, 1, Len(s) - 1), hoisted |-> s[Len(s)]]

\* Mutant: the statement is recorded in the frame of the enclosing level.
ScopeStack_push_parent(s, stmt) ==
    IF Len(s) < 2
    THEN s
    ELSE [s EXCEPT ![Len(s) - 1] = Append(@, stmt)]

\* Mutant: the statement replaces what the frame already holds.
ScopeStack_push_overwrite(s, stmt) ==
    IF s = <<>>
    THEN s
    ELSE [s EXCEPT ![Len(s)] = <<stmt>>]

ScopeStack_push(s, stmt) ==
    IF s = <<>>
    THEN s
    ELSE [s EXCEPT ![Len(s)] = Append(@, stmt)]

\* Vec::insert(index, element)
VecInsert(v, index, element) ==
    SubSeq(v, 1, index) \o <<element>> \o SubSeq(v, index + 1, Len(v))

\* .enumerate().filter(..).map(|(i, _)| i + 1).last().unwrap_or(0), given
\* for each element whether the filter accepts it: the number of elements up
\* to and including the last accepted one, 0 when none is accepted.
RECURSIVE PositionAfterLast(_, _, _)
PositionAfterLast(accepted, i, acc) ==
    IF i > Len(accepted)
    THEN acc
    ELSE PositionAfterLast(accepted, i + 1, IF accepted[i] THEN i ELSE acc)

\* Mutant: every helper is inserted at insert_pos itself.
RECURSIVE InsertAll_same_position(_, _, _, _)
InsertAll_same_position(v, hoisted, insert_pos, i) ==
    IF i > Len(hoisted)
    THEN v
    ELSE InsertAll_same_position(VecInsert(v, insert_pos, hoisted[i]), hoisted, insert_pos, i + 1)

\* for (i, func) in hoisted.into_iter().enumerate() { v.insert(insert_pos + i, func) }
RECURSIVE InsertAll(_, _, _, _)
InsertAll(v, hoisted, insert_pos, i) ==
    IF i > Len(hoisted)
    THEN v
    ELSE InsertAll(VecInsert(v, insert_pos + (i - 1), hoisted[i]), hoisted, insert_pos, i + 1)

\* matches!(stmt, Stmt::Decl(Decl::Fn(_)))
IsFnDeclStmt(stmt) == stmt.kind = "FnDecl"

\* ModuleItem::Stmt(Stmt::Decl(Decl::Fn(_)))
\*   | ModuleItem::ModuleDecl(ModuleDecl::ExportDecl(ExportDecl { decl: Decl::Fn(_), .. }))
IsFnDeclItem(item) ==
    \/ item.kind = "FnDecl"
    \/ item.kind = "ExportDecl" /\ item.kids[1].kind = "FnDecl"

\* Mutant: the helpers go after the first function declaration.
insert_hoisted_stmts_after_first(stmts, hoisted) ==
    IF hoisted = <<>>
    THEN stmts
    ELSE InsertAll(stmts, hoisted,
                   IF \E i \in 1..Len(stmts) : IsFnDeclStmt(stmts[i])
                   THEN CHOOSE i \in 1..Len(stmts) :
                            /\ IsFnDeclStmt(stmts[i])
                            /\ \A j \in 1..(i - 1) : ~IsFnDeclStmt(stmts[j])
                   ELSE 0,
                   1)

insert_hoisted_stmts(stmts, hoisted) ==
    IF hoisted = <<>>
    THEN stmts
    ELSE InsertAll(stmts, hoisted,
                   PositionAfterLast([i \in 1..Len(stmts) |-> IsFnDeclStmt(stmts[i])], 1, 0),
                   1)

insert_hoisted_module_items(items, hoisted) ==
    IF hoisted = <<>>
    THEN items
    ELSE InsertAll(items, hoisted,
                   PositionAfterLast([i \in 1..Len(items) |-> IsFnDeclItem(items[i])], 1, 0),
                   1)

(***************************************************************************)
(* The tree walker (impl VisitMut for AsyncToNgGeneratorVisitor).          *)
(* A frame [path, phase] is one active visit of the node at `path`:        *)
(* phase "enter" before its children are visited, phase "exit" when the    *)
(* children have returned and the rest of the handler runs.                *)
(***************************************************************************)
RECURSIVE NodeAt(_, _)
NodeAt(n, path) ==
    IF path = <<>> THEN n ELSE NodeAt(n.kids[Head(path)], Tail(path))

RECURSIVE ReplaceAt(_, _, _)
ReplaceAt(n, path, new) ==
    IF path = <<>>
    THEN new
    ELSE [n EXCEPT !.kids[Head(path)] = ReplaceAt(@, Tail(path), new)]

Frame(path, phase) == [path |-> path, phase |-> phase]

\* visit_mut_children_with / `for item in items.iter_mut()`: one visit per
\* child, in order.
ChildFrames(path, n) ==
    [i \in 1..Len(n.kids) |-> Frame(Append(path, i), "enter")]

\* Node kinds for which the walker overrides the visit method.
HandledKinds == {"Module", "Block", "FnDecl", "ClassMethod", "MethodProp"} \cup ExprKinds

Top == Head(stack)

Here == NodeAt(tree, Top.path)

Entering(kinds) == stack # <<>> /\ Top.phase = "enter" /\ Here.kind \in kinds

Leaving(kinds) == stack # <<>> /\ Top.phase = "exit" /\ Here.kind \in kinds

Descend ==
    stack' = ChildFrames(Top.path, Here) \o <<Frame(Top.path, "exit")>> \o Tail(stack)

NoSplice == [fn |-> "none", list |-> <<>>, hoisted |-> <<>>, result |-> <<>>]

\* What a construct transformer was given (before), what is in its place when
\* it returns (after), the helper it returned, whether the walker replaced
\* the expression by the returned wrapper, and the reference name passed.
Call(handler, before, after, helper, replaced, ref_name) ==
    [handler |-> handler, before |-> before, after |-> after, helper |-> helper,
     replaced |-> replaced, ref_name |-> ref_name]

NoCall == Call("none", Node("Invalid", None, <<>>), Node("Invalid", None, <<>>),
               <<>>, FALSE, None)

\* visit_mut_module_items, up to the end of the loop over the items
VisitModuleItemsEnter ==
    /\ Entering({"Module"})
    /\ scopes' = ScopeStack_enter(scopes)
    /\ Descend
    /\ UNCHANGED <<tree, input, count, pass, first, refs, splice, last>>

\* visit_mut_module_items, after the loop
VisitModuleItemsExit ==
    /\ Leaving({"Module"})
    /\ LET exited == ScopeStack_exit(scopes)
           items  == insert_hoisted_module_items(Here.kids, exited.hoisted)
       IN  /\ scopes' = exited.stack
           /\ tree' = ReplaceAt(tree, Top.path, [Here EXCEPT !.kids = items])
           /\ splice' = [fn |-> "insert_hoisted_module_items", list |-> Here.kids,
                        hoisted |-> exited.hoisted, result |-> items]
    /\ stack' = Tail(stack)
    /\ UNCHANGED <<input, count, pass, first, refs, last>>

\* visit_mut_stmts, up to the end of the loop over the statements
VisitStmtsEnter ==
    /\ Entering({"Block"})
    /\ scopes' = ScopeStack_enter(scopes)
    /\ Descend
    /\ UNCHANGED <<tree, input, count, pass, first, refs, splice, last>>

\* visit_mut_stmts, after the loop
VisitStmtsExit ==
    /\ Leaving({"Block"})
    /\ LET exited == ScopeStack_exit(scopes)
           stmts  == insert_hoisted_stmts(Here.kids, exited.hoisted)
       IN  /\ scopes' = exited.stack
           /\ tree' = ReplaceAt(tree, Top.path, [Here EXCEPT !.kids = stmts])
           /\ splice' = [fn |-> "insert_hoisted_stmts", list |-> Here.kids,
                        hoisted |-> exited.hoisted, result |-> stmts]
    /\ stack' = Tail(stack)
    /\ UNCHANGED <<input, count, pass, first, refs, last>>

\* x.visit_mut_children_with(self), the first statement of visit_mut_fn_decl,
\* visit_mut_expr, visit_mut_class_method and visit_mut_prop
VisitChildren ==
    /\ Entering({"FnDecl", "ClassMethod", "MethodProp"} \cup ExprKinds)
    /\ Descend
    /\ UNCHANGED <<tree, input, scopes, count, pass, first, refs, splice, last>>

\* the generated visit of a node type the walker does not override
VisitDefault ==
    /\ stack # <<>> /\ Top.phase = "enter" /\ Here.kind \notin HandledKinds
    /\ stack' = ChildFrames(Top.path, Here) \o Tail(stack)
    /\ UNCHANGED <<tree, input, scopes, count, pass, first, refs, splice, last>>

\* visit_mut_fn_decl, after the children
VisitFnDecl ==
    /\ Leaving({"FnDecl"})
    /\ LET t == transform_fn_decl(Here)
       IN  /\ tree' = ReplaceAt(tree, Top.path, t.node)
           /\ scopes' = IF t.helper # <<>>
                        THEN ScopeStack_push(scopes, t.helper[1])
                        ELSE scopes
           /\ last' = Call("fn_decl", Here, t.node, t.helper, FALSE, None)
    /\ stack' = Tail(stack)
    /\ UNCHANGED <<input, count, pass, first, refs, splice>>

\* Mutant: the returned replacement is dropped.
ReplaceIfSome_never(node, transformed) == node

\* if let Some(transformed) = transform_..(.., &ref_name) { *expr = transformed; }
\* : what stands at *expr afterwards, `node` being what the transformer left
ReplaceIfSome(node, transformed) ==
    IF transformed # <<>> THEN transformed[1] ELSE node

\* visit_mut_expr, after the children: Expr::Arrow(arrow) if arrow.is_async
VisitExprArrow ==
    /\ Leaving({"Arrow"})
    /\ Here.is_async
    /\ LET next == RefCounter_next(count)
           t    == transform_arrow_fn(Here, next.name)
           now  == ReplaceIfSome(t.node, t.result)
       IN  /\ count' = next.count
           /\ tree' = ReplaceAt(tree, Top.path, now)
           /\ refs' = IF t.result # <<>> THEN Append(refs, next.name) ELSE refs
           /\ last' = Call("arrow", Here, now, <<>>, t.result # <<>>, next.name)
    /\ stack' = Tail(stack)
    /\ UNCHANGED <<input, scopes, pass, first, splice>>

\* visit_mut_expr, after the children: Expr::Fn(fn_expr) if fn_expr.function.is_async
VisitExprFn ==
    /\ Leaving({"Fn"})
    /\ Here.is_async
    /\ LET next == RefCounter_next(count)
           t    == transform_fn_expr(Here, next.name)
           now  == ReplaceIfSome(t.node, t.result)
       IN  /\ count' = next.count
           /\ tree' = ReplaceAt(tree, Top.path, now)
           /\ refs' = IF t.result # <<>> THEN Append(refs, next.name) ELSE refs
           /\ last' = Call("fn_expr", Here, now, <<>>, t.result # <<>>, next.name)
    /\ stack' = Tail(stack)
    /\ UNCHANGED <<input, scopes, pass, first, splice>>

\* visit_mut_expr, after the children: _ => {}
VisitExprOther ==
    /\ Leaving(ExprKinds)
    /\ ~(Here.kind \in {"Arrow", "Fn"} /\ Here.is_async)
    /\ stack' = Tail(stack)
    /\ UNCHANGED <<tree, input, scopes, count, pass, first, refs, splice, last>>

\* visit_mut_class_method, after the children
VisitClassMethod ==
    /\ Leaving({"ClassMethod"})
    /\ tree' = ReplaceAt(tree, Top.path, transform_class_method(Here))
    /\ last' = Call("class_method", Here, transform_class_method(Here), <<>>, FALSE, None)
    /\ stack' = Tail(stack)
    /\ UNCHANGED <<input, scopes, count, pass, first, refs, splice>>

\* visit_mut_prop, after the children: if let Prop::Method(method_prop) = prop
VisitProp ==
    /\ Leaving({"MethodProp"})
    /\ tree' = ReplaceAt(tree, Top.path, transform_object_method(Here))
    /\ last' = Call("object_method", Here, transform_object_method(Here), <<>>, FALSE, None)
    /\ stack' = Tail(stack)
    /\ UNCHANGED <<input, scopes, count, pass, first, refs, splice>>

Done == stack = <<>>

\* The pass is run again on its own output, by a new walker
\* (AsyncToNgGeneratorVisitor::new(): a fresh scope stack and counter).
RunAgain ==
    /\ Done
    /\ pass = 1
    /\ pass' = 2
    /\ first' = <<tree>>
    /\ stack' = <<Frame(<<>>, "enter")>>
    /\ scopes' = ScopeStack_new
    /\ count' = 0
    /\ UNCHANGED <<tree, input, refs, splice, last>>

(***************************************************************************)
(* Input programs.                                                         *)
(***************************************************************************)
Arrow(is_async, params, body) ==
    Function("Arrow", None, is_async, FALSE, params, <<body>>)

FnExpr(name, is_async, params, stmts) ==
    Function("Fn", name, is_async, FALSE, params, <<block(stmts)>>)

FnDecl(name, is_async, params, stmts) ==
    Function("FnDecl", name, is_async, FALSE, params, <<block(stmts)>>)

ExportDecl(decl) == Node("ExportDecl", None, <<decl>>)

ClassMethod(key, is_async, params, stmts) ==
    Function("ClassMethod", key, is_async, FALSE, params, <<block(stmts)>>)

ClassDecl(name, members) == Node("ClassDecl", name, members)

MethodProp(key, is_async, params, stmts) ==
    Function("MethodProp", key, is_async, FALSE, params, <<block(stmts)>>)

ObjectLit(props) == Node("Object", None, props)

\* class member `#key(params) { stmts }`
PrivateMethod(key, is_async, params, stmts) ==
    Function("PrivateMethod", key, is_async, FALSE, params, <<block(stmts)>>)

Module(items) == Node("Module", None, items)

Params(names) == [i \in 1..Len(names) |-> Param(names[i])]

ThisFetch == call_expr(member_expr(ThisExpr, "fetch"), <<>>)

\* x, this.fetch(), await bar(a, b), await this.fetch(), g(await x)
LeafExprs ==
    { ident("x"),
      ThisFetch,
      AwaitExpr(call_expr(ident("bar"), <<ident("a"), ident("b")>>)),
      AwaitExpr(ThisFetch),
      call_expr(ident("g"), <<AwaitExpr(ident("x"))>>) }

\* Leaves a non-async function may hold (an await there is a syntax error).
PlainLeafExprs == { e \in LeafExprs : ~HasAwaitVisitor(e) }

OwnAwait == expr_stmt(AwaitExpr(ident("y")))

\* The expression constructs over a statement list `stmts`; `plain` says
\* whether the list may also be the body of a non-async function.
ExprConstructs(stmts, plain) ==
    { Arrow(TRUE, <<"u">>, block(stmts)),
      FnExpr("nf", TRUE, Params(<<"u">>), stmts),
      ObjectLit(<<MethodProp("m", TRUE, Params(<<"u">>), stmts)>>) }
    \cup (IF plain
          THEN { Arrow(FALSE, <<"u">>, block(stmts)),
                 FnExpr(None, FALSE, Params(<<"u">>), stmts),
                 ObjectLit(<<MethodProp("m", FALSE, Params(<<"u">>), stmts)>>) }
          ELSE {})

\* The statement constructs over a statement list.
StmtConstructs(name, stmts, plain) ==
    { FnDecl(name, TRUE, Params(<<"a", "b">>), stmts),
      ClassDecl("K", <<ClassMethod("load", TRUE, Params(<<"u">>), stmts)>>),
      block(stmts) }
    \cup (IF plain
          THEN { FnDecl(name, FALSE, Params(<<"a", "b">>), stmts),
                 ClassDecl("K", <<ClassMethod("load", FALSE, Params(<<"u">>), stmts)>>) }
          ELSE {})

\* Expression-bodied arrows over an expression.
ExprArrows(e) ==
    { Arrow(TRUE, <<"u">>, e) }
    \cup (IF HasAwaitVisitor(e) THEN {} ELSE { Arrow(FALSE, <<"u">>, e) })

\* Constructs nested one deep: a construct around a leaf.
Exprs1 ==
    UNION { ExprConstructs(<<return_stmt(e)>>, e \in PlainLeafExprs) \cup ExprArrows(e)
            : e \in LeafExprs }

Stmts1 ==
    UNION { StmtConstructs("bar", <<return_stmt(e)>>, e \in PlainLeafExprs)
            : e \in LeafExprs }
    \cup { expr_stmt(c) : c \in Exprs1 }

\* Constructs nested two deep: a construct around a construct, with or
\* without an await of the outer construct's own.
Bodies2 ==
    { <<st>> : st \in Stmts1 } \cup { <<OwnAwait, st>> : st \in Stmts1 }

PlainBody(stmts) == \A i \in 1..Len(stmts) : ~HasAwaitVisitor(stmts[i])

Exprs2 ==
    UNION { ExprConstructs(b, PlainBody(b)) : b \in Bodies2 }
    \cup UNION { ExprArrows(c) : c \in Exprs1 }

Stmts2 ==
    UNION { StmtConstructs("foo", b, PlainBody(b)) : b \in Bodies2 }
    \cup { expr_stmt(c) : c \in Exprs2 }

\* Modules of one item holding a nest of constructs.
NestedModules ==
    { Module(<<st>>) : st \in { expr_stmt(e) : e \in LeafExprs } \cup Stmts1 \cup Stmts2 }

\* Modules and blocks of several sibling items.
FooDecl ==
    FnDecl("foo", TRUE, Params(<<"a", "b">>),
           <<return_stmt(AwaitExpr(call_expr(ident("bar"), <<ident("a"), ident("b")>>)))>>)

SiblingStmts ==
    { FooDecl,
      FnDecl("baz", TRUE, <<>>, <<expr_stmt(AwaitExpr(ThisFetch))>>),
      FnDecl("qux", FALSE, <<>>, <<return_stmt(ident("x"))>>),
      expr_stmt(ident("x")) }

SiblingItems ==
    { FooDecl,
      FnDecl("qux", FALSE, <<>>, <<return_stmt(ident("x"))>>),
      expr_stmt(ident("x")),
      var_decl("v", Arrow(TRUE, <<"u">>, AwaitExpr(ident("u")))),
      var_decl("w", Arrow(TRUE, <<"u">>, ident("u"))),
      ExportDecl(FnDecl("exp", TRUE, <<>>, <<expr_stmt(AwaitExpr(ident("x")))>>)) }

MaxItems == 3

SeqsUpTo(S, n) == UNION { [1..m -> S] : m \in 0..n }

SiblingModules ==
    { Module(items) : items \in SeqsUpTo(SiblingItems, MaxItems) }
    \cup { Module(<<block(stmts)>>) : stmts \in SeqsUpTo(SiblingStmts, MaxItems) }

\* Constructs without a body (`func.body` is None: an overload signature or
\* an abstract method that reached the pass), each declared async.
Bodyless(c) == [c EXCEPT !.kids = <<>>]

BodylessDecl == Bodyless(FnDecl("amb", TRUE, Params(<<"a">>), <<>>))

BodylessModules ==
    { Module(<<BodylessDecl>>),
      Module(<<BodylessDecl, FooDecl>>),
      Module(<<var_decl("v", Bodyless(FnExpr("nf", TRUE, Params(<<"u">>), <<>>))),
               var_decl("w", Arrow(TRUE, <<"u">>, AwaitExpr(ident("u"))))>>),
      Module(<<ClassDecl("K", <<Bodyless(ClassMethod("load", TRUE, Params(<<"u">>), <<>>))>>)>>),
      Module(<<expr_stmt(ObjectLit(<<Bodyless(MethodProp("m", TRUE, Params(<<"u">>), <<>>))>>))>>) }

\* Classes with a private method, at the top and inside an async function.
PrivateLoad ==
    PrivateMethod("load", TRUE, Params(<<"u">>), <<return_stmt(AwaitExpr(ThisFetch))>>)

PrivateMethodModules ==
    { Module(<<ClassDecl("K", <<PrivateLoad>>)>>),
      Module(<<FnDecl("foo", TRUE, Params(<<"a", "b">>),
                      <<OwnAwait, ClassDecl("K", <<PrivateLoad>>)>>)>>),
      Module(<<ClassDecl("K", <<ClassMethod("run", TRUE, <<>>,
                      <<OwnAwait, expr_stmt(ObjectLit(<<
                          MethodProp("m", TRUE, <<>>, <<
                              ClassDecl("L", <<PrivateLoad>>)>>)>>))>>)>>)>>) }

\* var f = async function nf(u) { return await nf(u); };  and the same
\* function without a name.
RecursiveBody == <<return_stmt(AwaitExpr(call_expr(ident("nf"), <<ident("u")>>)))>>

NamedFnExprModules ==
    { Module(<<var_decl("f", FnExpr("nf", TRUE, Params(<<"u">>), RecursiveBody))>>),
      Module(<<var_decl("f", FnExpr(None, TRUE, Params(<<"u">>), RecursiveBody))>>) }

\* class K { async load(u) { return await g(u); } }  and
\* ({ async m(u) { return await g(u); } })
UsesParam == <<return_stmt(AwaitExpr(call_expr(ident("g"), <<ident("u")>>)))>>

ParamMethodModules ==
    { Module(<<ClassDecl("K", <<ClassMethod("load", TRUE, Params(<<"u">>), UsesParam)>>)>>),
      Module(<<expr_stmt(ObjectLit(<<MethodProp("m", TRUE, Params(<<"u">>), UsesParam)>>))>>) }

\* Programs that use names of the form the pass generates:
\* var f = async (u) => await _ref;   async function foo() { return await _foo; }
UnderscoreModules ==
    { Module(<<var_decl("f", Arrow(TRUE, <<"u">>, AwaitExpr(ident("_ref"))))>>),
      Module(<<FnDecl("foo", TRUE, <<>>, <<return_stmt(AwaitExpr(ident("_foo")))>>)>>) }

\* var f = async (u, v) => await g(await u, v);  and the same with a block
\* body and with `this` as the callee's object
DeepAwait(callee) == AwaitExpr(call_expr(callee, <<AwaitExpr(ident("u")), ident("v")>>))

ArrowModules ==
    { Module(<<var_decl("f", Arrow(TRUE, <<"u", "v">>, DeepAwait(ident("g"))))>>),
      Module(<<var_decl("f", Arrow(TRUE, <<"u", "v">>,
                                   block(<<return_stmt(DeepAwait(ident("g")))>>)))>>),
      Module(<<var_decl("f", Arrow(TRUE, <<"u", "v">>,
                                   DeepAwait(member_expr(ThisExpr, "g"))))>>) }

\* Async generators:  async function* gen(a) { await x; }
\* class K { async *load(u) { return await this.fetch(); } }
\* ({ async *m(u) { await x; } })    var f = async function* (u) { await x; };
AsyncGenerator(c) == [c EXCEPT !.is_generator = TRUE]

AsyncGeneratorModules ==
    { Module(<<AsyncGenerator(FnDecl("gen", TRUE, Params(<<"a">>),
                                     <<expr_stmt(AwaitExpr(ident("x")))>>))>>),
      Module(<<ClassDecl("K", <<AsyncGenerator(ClassMethod("load", TRUE, Params(<<"u">>),
                                     <<return_stmt(AwaitExpr(ThisFetch))>>))>>)>>),
      Module(<<expr_stmt(ObjectLit(<<AsyncGenerator(MethodProp("m", TRUE, Params(<<"u">>),
                                     <<expr_stmt(AwaitExpr(ident("x")))>>))>>))>>),
      Module(<<var_decl("f", AsyncGenerator(FnExpr(None, TRUE, Params(<<"u">>),
                                     <<expr_stmt(AwaitExpr(ident("x")))>>)))>>) }

Inputs ==
    NestedModules \cup SiblingModules \cup BodylessModules \cup PrivateMethodModules
    \cup NamedFnExprModules \cup ParamMethodModules \cup UnderscoreModules
    \cup ArrowModules \cup AsyncGeneratorModules

(***************************************************************************)
(* The pass of the walker of visitor.rs over one program.                  *)
(***************************************************************************)
Init ==
    /\ tree \in Inputs
    /\ input = tree
    /\ stack = <<Frame(<<>>, "enter")>>
    /\ scopes = ScopeStack_new
    /\ count = 0
    /\ pass = 1
    /\ first = <<>>
    /\ refs = <<>>
    /\ splice = NoSplice
    /\ last = NoCall

Next ==
    \/ VisitModuleItemsEnter
    \/ VisitModuleItemsExit
    \/ VisitStmtsEnter
    \/ VisitStmtsExit
    \/ VisitChildren
    \/ VisitDefault
    \/ VisitFnDecl
    \/ VisitExprArrow
    \/ VisitExprFn
    \/ VisitExprOther
    \/ VisitClassMethod
    \/ VisitProp
    \/ RunAgain

Spec == Init /\ [][Next]_vars

(***************************************************************************)
(* lib.rs : the walker the plugin entry point process_transform runs.      *)
(* It carries its own copies of the builders and visitors and does not use *)
(* transforms/.                                                            *)
(***************************************************************************)
\* IdCounter::next_ref : [name, count]
IdCounter_next_ref(c) ==
    [name  |-> IF c = 0 THEN "_ref" ELSE "_ref" \o ToString(c),
     count |-> c + 1]

create_ident(name) == Node("Ident", name, <<>>)

enter_scope(s) == Append(s, <<>>)

\* exit_scope : [stack, hoisted]; pop().unwrap_or_default()
exit_scope(s) ==
    IF s = <<>>
    THEN [stack |-> s, hoisted |-> <<>>]
    ELSE [stack |-> SubSeq(s, 1, Len(s) - 1), hoisted |-> s[Len(s)]]

\* push_hoisted : if let Some(current) = self.hoisted_funcs_stack.last_mut()
push_hoisted(s, stmt) ==
    IF s = <<>> THEN s ELSE [s EXCEPT ![Len(s)] = Append(@, stmt)]

RECURSIVE LibAwaitToYieldVisitor(_)
LibAwaitToYieldVisitor(n) ==
    IF n.kind \in FunctionHolders \/ n.kind = "Arrow"
    THEN n
    ELSE LET visited == [n EXCEPT !.kids =
                            [i \in 1..Len(n.kids) |-> LibAwaitToYieldVisitor(n.kids[i])]]
         IN  IF visited.kind = "Await"
             THEN [Node("Yield", None, <<visited.kids[1]>>) EXCEPT !.delegate = FALSE]
             ELSE visited

\* Returns [node, needs_this].  Neither functions nor arrows are entered.
RECURSIVE LibThisCaptureVisitor(_)
LibThisCaptureVisitor(n) ==
    IF n.kind = "This"
    THEN [node |-> create_ident("_this"), needs_this |-> TRUE]
    ELSE IF n.kind \in FunctionHolders \/ n.kind = "Arrow"
         THEN [node |-> n, needs_this |-> FALSE]
         ELSE LET sub == [i \in 1..Len(n.kids) |-> LibThisCaptureVisitor(n.kids[i])]
              IN  [node |-> [n EXCEPT !.kids = [i \in 1..Len(n.kids) |-> sub[i].node]],
                   needs_this |-> \E i \in 1..Len(n.kids) : sub[i].needs_this]

\* Returns [func, needs_this].
LibCreateGeneratorFunction(params, body, is_method) ==
    LET yielded  == LibAwaitToYieldVisitor(body)
        captured == LibThisCaptureVisitor(yielded)
    IN  [func |-> Function("Function", None, FALSE, TRUE, params,
                           <<IF is_method THEN captured.node ELSE yielded>>),
         needs_this |-> is_method /\ captured.needs_this]

\* The Expr::Fn built from a swc Function.
FnExprOf(name, func) ==
    Function("Fn", name, func.is_async, func.is_generator, func.params, func.kids)

create_ng_async_wrapper(generator_func) ==
    Node("Call", None, <<create_ident("_ngAsyncToGenerator"), FnExprOf(None, generator_func)>>)

create_apply_call(wrapper) ==
    Node("Call", None, <<Node("Member", "apply", <<wrapper>>),
                         Node("This", None, <<>>),
                         create_ident("arguments")>>)

create_immediate_call(wrapper) == Node("Call", None, <<wrapper>>)

create_this_capture == Node("VarDecl", "_this", <<Node("This", None, <<>>)>>)

create_helper_function(helper_name, generator_func) ==
    Function("FnDecl", helper_name, FALSE, FALSE, <<>>, <<
        Node("Block", None, <<
            Node("ExprStmt", None, <<
                Node("Assign", helper_name, <<create_ng_async_wrapper(generator_func)>>)>>),
            Node("Return", None, <<create_apply_call(create_ident(helper_name))>>) >>) >>)

LibInsertHoistedStmts(stmts, hoisted) ==
    IF hoisted = <<>>
    THEN stmts
    ELSE InsertAll(stmts, hoisted,
                   PositionAfterLast([i \in 1..Len(stmts) |-> stmts[i].kind = "FnDecl"], 1, 0),
                   1)

LibInsertHoistedModuleItems(items, hoisted) ==
    IF hoisted = <<>>
    THEN items
    ELSE InsertAll(items, hoisted,
                   PositionAfterLast(
                       [i \in 1..Len(items) |->
                           \/ items[i].kind = "FnDecl"
                           \/ /\ items[i].kind = "ExportDecl"
                              /\ items[i].kids[1].kind = "FnDecl"], 1, 0),
                   1)

\* The body of an arrow as a block: a block body as it is, an expression
\* body as `{ return e; }`.
ArrowBodyAsBlock(arrow) ==
    IF arrow.kids[1].kind = "Block"
    THEN arrow.kids[1]
    ELSE Node("Block", None, <<Node("Return", None, <<arrow.kids[1]>>)>>)

\* The wrapper both expression branches build:
\* (function() { var ref = _ngAsyncToGenerator(g); return function name() {
\*   return ref.apply(this, arguments); }; })()
LibIife(ref_name, name, generator_func) ==
    Node("Call", None, <<
        Function("Fn", None, FALSE, FALSE, <<>>, <<
            Node("Block", None, <<
                Node("VarDecl", ref_name, <<create_ng_async_wrapper(generator_func)>>),
                Node("Return", None, <<
                    Function("Fn", name, FALSE, FALSE, <<>>, <<
                        Node("Block", None, <<
                            Node("Return", None, <<
                                create_apply_call(create_ident(ref_name))>>)>>)>>)>>)>>)>>)>>)

\* The body of a method after the rewrite.
LibMethodBody(body) ==
    LET gen == LibCreateGeneratorFunction(<<>>, body, TRUE)
    IN  Node("Block", None,
             (IF gen.needs_this THEN <<create_this_capture>> ELSE <<>>)
             \o <<Node("Return", None, <<
                    create_immediate_call(create_ng_async_wrapper(gen.func))>>)>>)

\* visit_mut_module_items, up to the end of the loop over the items
LibVisitModuleItemsEnter ==
    /\ Entering({"Module"})
    /\ scopes' = enter_scope(scopes)
    /\ Descend
    /\ UNCHANGED <<tree, input, count, pass, first, refs, splice, last>>

\* visit_mut_module_items, after the loop
LibVisitModuleItemsExit ==
    /\ Leaving({"Module"})
    /\ LET exited == exit_scope(scopes)
           items  == LibInsertHoistedModuleItems(Here.kids, exited.hoisted)
       IN  /\ scopes' = exited.stack
           /\ tree' = ReplaceAt(tree, Top.path, [Here EXCEPT !.kids = items])
           /\ splice' = [fn |-> "insert_hoisted_module_items", list |-> Here.kids,
                        hoisted |-> exited.hoisted, result |-> items]
    /\ stack' = Tail(stack)
    /\ UNCHANGED <<input, count, pass, first, refs, last>>

\* visit_mut_stmts, up to the end of the loop over the statements
LibVisitStmtsEnter ==
    /\ Entering({"Block"})
    /\ scopes' = enter_scope(scopes)
    /\ Descend
    /\ UNCHANGED <<tree, input, count, pass, first, refs, splice, last>>

\* visit_mut_stmts, after the loop
LibVisitStmtsExit ==
    /\ Leaving({"Block"})
    /\ LET exited == exit_scope(scopes)
           stmts  == LibInsertHoistedStmts(Here.kids, exited.hoisted)
       IN  /\ scopes' = exited.stack
           /\ tree' = ReplaceAt(tree, Top.path, [Here EXCEPT !.kids = stmts])
           /\ splice' = [fn |-> "insert_hoisted_stmts", list |-> Here.kids,
                        hoisted |-> exited.hoisted, result |-> stmts]
    /\ stack' = Tail(stack)
    /\ UNCHANGED <<input, count, pass, first, refs, last>>

\* visit_mut_fn_decl, after the children
LibVisitFnDecl ==
    /\ Leaving({"FnDecl"})
    /\ IF ~Here.is_async \/ Here.kids = <<>>
       THEN /\ last' = Call("fn_decl", Here, Here, <<>>, FALSE, None)
            /\ UNCHANGED <<tree, scopes>>
       ELSE LET helper_name == "_" \o Here.sym
                gen         == LibCreateGeneratorFunction(Here.params, Here.kids[1], FALSE)
                helper_fn   == create_helper_function(helper_name, gen.func)
                now         == [Here EXCEPT
                                   !.is_async = FALSE,
                                   !.is_generator = FALSE,
                                   !.params = <<>>,
                                   !.kids = <<Node("Block", None, <<
                                       Node("Return", None, <<
                                           create_apply_call(create_ident(helper_name))>>)>>)>>]
            IN  /\ tree' = ReplaceAt(tree, Top.path, now)
                /\ scopes' = push_hoisted(scopes, helper_fn)
                /\ last' = Call("fn_decl", Here, now, <<helper_fn>>, FALSE, None)
    /\ stack' = Tail(stack)
    /\ UNCHANGED <<input, count, pass, first, refs, splice>>

\* visit_mut_expr, after the children: Expr::Arrow(arrow) if arrow.is_async
LibVisitExprArrow ==
    /\ Leaving({"Arrow"})
    /\ Here.is_async
    /\ LET params == [i \in 1..Len(Here.params) |-> Param(Here.params[i])]
           gen    == LibCreateGeneratorFunction(params, ArrowBodyAsBlock(Here), FALSE)
           next   == IdCounter_next_ref(count)
           now    == LibIife(next.name, None, gen.func)
       IN  /\ count' = next.count
           /\ tree' = ReplaceAt(tree, Top.path, now)
           /\ refs' = Append(refs, next.name)
           /\ last' = Call("arrow", Here, now, <<>>, TRUE, next.name)
    /\ stack' = Tail(stack)
    /\ UNCHANGED <<input, scopes, pass, first, splice>>

\* visit_mut_expr, after the children: Expr::Fn(fn_expr) if fn_expr.function.is_async
LibVisitExprFn ==
    /\ Leaving({"Fn"})
    /\ Here.is_async
    /\ IF Here.kids = <<>>
       THEN /\ last' = Call("fn_expr", Here, Here, <<>>, FALSE, None)
            /\ UNCHANGED <<tree, count, refs>>
       ELSE LET gen  == LibCreateGeneratorFunction(Here.params, Here.kids[1], FALSE)
                next == IdCounter_next_ref(count)
                now  == LibIife(next.name, Here.sym, gen.func)
            IN  /\ count' = next.count
                /\ tree' = ReplaceAt(tree, Top.path, now)
                /\ refs' = Append(refs, next.name)
                /\ last' = Call("fn_expr", Here, now, <<>>, TRUE, next.name)
    /\ stack' = Tail(stack)
    /\ UNCHANGED <<input, scopes, pass, first, splice>>

\* visit_mut_class_method, after the children
LibVisitClassMethod ==
    /\ Leaving({"ClassMethod"})
    /\ LET now == IF ~Here.is_async \/ Here.kids = <<>>
                  THEN Here
                  ELSE [Here EXCEPT !.is_async = FALSE,
                                    !.params = <<>>,
                                    !.kids = <<LibMethodBody(Here.kids[1])>>]
       IN  /\ tree' = ReplaceAt(tree, Top.path, now)
           /\ last' = Call("class_method", Here, now, <<>>, FALSE, None)
    /\ stack' = Tail(stack)
    /\ UNCHANGED <<input, scopes, count, pass, first, refs, splice>>

\* visit_mut_prop, after the children: if let Prop::Method(method_prop) = prop
LibVisitProp ==
    /\ Leaving({"MethodProp"})
    /\ LET now == IF ~Here.is_async \/ Here.kids = <<>>
                  THEN Here
                  ELSE [Here EXCEPT !.is_async = FALSE,
                                    !.params = <<>>,
                                    !.kids = <<LibMethodBody(Here.kids[1])>>]
       IN  /\ tree' = ReplaceAt(tree, Top.path, now)
           /\ last' = Call("object_method", Here, now, <<>>, FALSE, None)
    /\ stack' = Tail(stack)
    /\ UNCHANGED <<input, scopes, count, pass, first, refs, splice>>

LibNext ==
    \/ LibVisitModuleItemsEnter
    \/ LibVisitModuleItemsExit
    \/ LibVisitStmtsEnter
    \/ LibVisitStmtsExit
    \/ VisitChildren
    \/ VisitDefault
    \/ LibVisitFnDecl
    \/ LibVisitExprArrow
    \/ LibVisitExprFn
    \/ VisitExprOther
    \/ LibVisitClassMethod
    \/ LibVisitProp
    \/ RunAgain

SpecLib == Init /\ [][LibNext]_vars

(***************************************************************************)
(* Vocabulary of the properties.                                           *)
(***************************************************************************)
RECURSIVE PathsOf(_)
PathsOf(n) ==
    {<<>>} \cup UNION { { <<i>> \o q : q \in PathsOf(n.kids[i]) } : i \in 1..Len(n.kids) }

Occurs(c, t) == \E p \in PathsOf(t) : NodeAt(t, p) = c

Prefix(p, len) == SubSeq(p, 1, len)

\* The four construct kinds (a method is a class method or an object method).
ConstructKinds == {"FnDecl", "Fn", "Arrow", "ClassMethod", "MethodProp"}

OpensAwaitScope(n) == n.kind \in FunctionHolders \cup {"Arrow"}

\* n holds an await that no function or arrow between n and the await owns.
AwaitInScope(n) ==
    \E p \in PathsOf(n) :
        /\ NodeAt(n, p).kind = "Await"
        /\ \A len \in 0..(Len(p) - 1) : ~OpensAwaitScope(NodeAt(n, Prefix(p, len)))

HasBody(c) == c.kids # <<>>

\* b is a with every await in a's own scope turned into a non-delegating
\* yield (and, when `capture` is set, every `this` of a's own context, the
\* ones inside arrows included, turned into `_this`), nothing else changed.
RECURSIVE Rewritten(_, _, _, _)
Rewritten(a, b, in_scope, capture) ==
    IF a.kind \in FunctionHolders
    THEN b = a
    ELSE IF a.kind = "Arrow" /\ ~capture
    THEN b = a
    ELSE IF a.kind = "Await" /\ in_scope
    THEN /\ b.kind = "Yield" /\ ~b.delegate /\ Len(b.kids) = 1
         /\ Rewritten(a.kids[1], b.kids[1], in_scope, capture)
    ELSE IF a.kind = "This" /\ capture
    THEN b = Node("Ident", "_this", <<>>)
    ELSE /\ [b EXCEPT !.kids = <<>>] = [a EXCEPT !.kids = <<>>]
         /\ Len(b.kids) = Len(a.kids)
         /\ \A i \in 1..Len(a.kids) :
                Rewritten(a.kids[i], b.kids[i], in_scope /\ a.kind # "Arrow", capture)

FirstPassDone == Done /\ pass = 1

(***************************************************************************)
(* C1 (as stated): after the pass, an async construct whose body holds no  *)
(* await of its own is the input construct with only the async flag        *)
(* cleared: the output holds that very construct.                          *)
(***************************************************************************)
C1_OutputIsInputButFlag ==
    FirstPassDone =>
        \A p \in PathsOf(input) :
            LET c == NodeAt(input, p)
            IN  (c.kind \in ConstructKinds /\ c.is_async /\ HasBody(c)
                 /\ ~AwaitInScope(c.kids[1]))
                => Occurs([c EXCEPT !.is_async = FALSE], tree)

(***************************************************************************)
(* C1 (amended): a construct transformer given an async construct whose    *)
(* body holds no await of its own leaves it as it was given, except that   *)
(* the async flag is false: name, parameters, body and generator flag are  *)
(* untouched, no helper is returned, no wrapper expression is substituted. *)
(***************************************************************************)
C1_TransformerClearsOnlyFlag ==
    (last.handler # "none" /\ last.before.is_async /\ HasBody(last.before)
     /\ ~AwaitInScope(last.before.kids[1]))
    => /\ last.after = [last.before EXCEPT !.is_async = FALSE]
       /\ last.helper = <<>>
       /\ ~last.replaced

C1_Witness ==
    /\ last.handler = "object_method"
    /\ last.before.is_async /\ HasBody(last.before)
    /\ ~AwaitInScope(last.before.kids[1])
    /\ Len(last.before.kids[1].kids) > 0
    /\ last.after = [last.before EXCEPT !.is_async = FALSE]

(***************************************************************************)
(* C2: an async function declaration f(p1..pn) with an await of its own    *)
(* becomes the non-async, non-generator declaration f whose body is the    *)
(* single statement `return _f.apply(this, arguments);`, and the helper    *)
(* `_f`, without parameters, whose body is exactly                         *)
(* `_f = _ngAsyncToGenerator(function*(p1..pn){ body, awaits as yields })` *)
(* and `return _f.apply(this, arguments);`.  The module holding only       *)
(* `async function foo(a,b){ return await bar(a,b); }` ends as foo, _foo.   *)
(***************************************************************************)
ForwardingReturn(h) ==
    Node("Return", None, <<
        Node("Call", None, <<
            Node("Member", "apply", <<Node("Ident", h, <<>>)>>),
            Node("This", None, <<>>),
            Node("Ident", "arguments", <<>>) >>) >>)

\* d is `function h() { h = _ngAsyncToGenerator(g); return h.apply(this, arguments); }`
IsHelperOf(d, h, g) ==
    /\ d.kind = "FnDecl" /\ d.sym = h /\ ~d.is_async /\ ~d.is_generator
    /\ d.params = <<>>
    /\ d.kids = << Node("Block", None, <<
                     Node("ExprStmt", None, <<
                         Node("Assign", h, <<
                             Node("Call", None, <<
                                 Node("Ident", "_ngAsyncToGenerator", <<>>), g >>) >>) >>),
                     ForwardingReturn(h) >>) >>

\* the generator expression held by a helper-shaped declaration
GeneratorOf(d) == d.kids[1].kids[1].kids[1].kids[1].kids[2]

\* g is an anonymous `function*(params) { body }` that is not async
IsGenerator(g, params) ==
    /\ g.kind = "Fn" /\ g.sym = None /\ g.is_generator /\ ~g.is_async
    /\ g.params = params /\ Len(g.kids) = 1 /\ g.kids[1].kind = "Block"

FooForwarding ==
    [kind |-> "FnDecl", sym |-> "foo", is_async |-> FALSE, is_generator |-> FALSE,
     delegate |-> FALSE, params |-> <<>>,
     kids |-> <<Node("Block", None, <<ForwardingReturn("_foo")>>)>>]

FooGenerator ==
    [kind |-> "Fn", sym |-> None, is_async |-> FALSE, is_generator |-> TRUE,
     delegate |-> FALSE,
     params |-> << [pat |-> "a", decorators |-> <<>>], [pat |-> "b", decorators |-> <<>>] >>,
     kids |-> <<Node("Block", None, <<
                  Node("Return", None, <<
                      Node("Yield", None, <<
                          Node("Call", None, <<Node("Ident", "bar", <<>>),
                                               Node("Ident", "a", <<>>),
                                               Node("Ident", "b", <<>>)>>) >>) >>) >>)>>]

C2_FnDeclRewrite ==
    /\ (last.handler = "fn_decl" /\ last.before.is_async /\ HasBody(last.before)
        /\ AwaitInScope(last.before.kids[1]))
       => LET h == "_" \o last.before.sym
          IN  /\ last.after.kind = "FnDecl" /\ last.after.sym = last.before.sym
              /\ ~last.after.is_async /\ ~last.after.is_generator
              /\ last.after.kids = <<Node("Block", None, <<ForwardingReturn(h)>>)>>
              /\ Len(last.helper) = 1
              /\ last.helper[1].kind = "FnDecl"
              /\ Len(last.helper[1].kids) = 1
              /\ Len(last.helper[1].kids[1].kids) = 2
              /\ IsHelperOf(last.helper[1], h, GeneratorOf(last.helper[1]))
              /\ IsGenerator(GeneratorOf(last.helper[1]), last.before.params)
              /\ Rewritten(last.before.kids[1], GeneratorOf(last.helper[1]).kids[1],
                           TRUE, FALSE)
    /\ (FirstPassDone /\ input = Module(<<FooDecl>>))
       => /\ Len(tree.kids) = 2
          /\ tree.kids[1] = FooForwarding
          /\ IsHelperOf(tree.kids[2], "_foo", FooGenerator)

C2_Witness ==
    /\ FirstPassDone
    /\ input = Module(<<FooDecl>>)
    /\ last.handler = "fn_decl" /\ Len(last.before.params) = 2
    /\ AwaitInScope(last.before.kids[1])
    /\ Len(tree.kids) = 2

(***************************************************************************)
(* Hoist Placement on its own: insert_hoisted_stmts and                    *)
(* insert_hoisted_module_items applied to any list and any pending list.   *)
(***************************************************************************)
MaxLen == 4

MaxHoisted == 2

PlainDecl == FnDecl("qux", FALSE, <<>>, <<return_stmt(ident("x"))>>)

HoistStmts == { PlainDecl, expr_stmt(ident("x")), var_decl("v", ident("x")) }

HoistItems ==
    HoistStmts \cup { ExportDecl(PlainDecl), ExportDecl(var_decl("k", ident("x"))) }

HoistPending ==
    { fn_decl("_foo", block(<<>>)), fn_decl("_baz", block(<<>>)) }

HoistInit ==
    /\ splice \in { [fn |-> "none", list |-> l, hoisted |-> h, result |-> <<>>] :
                      l \in SeqsUpTo(HoistItems, MaxLen),
                      h \in SeqsUpTo(HoistPending, MaxHoisted) }
    /\ tree = Module(<<>>)
    /\ input = tree
    /\ stack = <<Frame(<<>>, "exit")>>
    /\ scopes = ScopeStack_new
    /\ count = 0
    /\ pass = 1
    /\ first = <<>>
    /\ refs = <<>>
    /\ last = NoCall

CallInsertHoistedStmts ==
    /\ splice.fn = "none"
    /\ \A i \in 1..Len(splice.list) : splice.list[i].kind # "ExportDecl"
    /\ splice' = [splice EXCEPT
                     !.fn = "insert_hoisted_stmts",
                     !.result = insert_hoisted_stmts(splice.list, splice.hoisted)]
    /\ stack' = <<>>
    /\ UNCHANGED <<tree, input, scopes, count, pass, first, refs, last>>

CallInsertHoistedModuleItems ==
    /\ splice.fn = "none"
    /\ splice' = [splice EXCEPT
                     !.fn = "insert_hoisted_module_items",
                     !.result = insert_hoisted_module_items(splice.list, splice.hoisted)]
    /\ stack' = <<>>
    /\ UNCHANGED <<tree, input, scopes, count, pass, first, refs, last>>

HoistNext ==
    \/ CallInsertHoistedStmts
    \/ CallInsertHoistedModuleItems

SpecHoist == HoistInit /\ [][HoistNext]_vars

(***************************************************************************)
(* C3: a helper produced for an async function declaration D is recorded   *)
(* in the scope frame of the list that directly holds D, and is spliced    *)
(* into that same list: at every moment of the walk each pending helper    *)
(* waits in the frame of the list holding its declaration, the frame that  *)
(* belongs to no list stays empty, and each helper in the tree sits in the *)
(* list that directly holds its declaration.                               *)
(***************************************************************************)
IsList(n) == n.kind \in {"Module", "Block"}

\* The lists whose visit is under way, outermost first.
RECURSIVE OpenListsOf(_)
OpenListsOf(frames) ==
    IF frames = <<>>
    THEN <<>>
    ELSE OpenListsOf(Tail(frames))
         \o (IF Head(frames).phase = "exit" /\ IsList(NodeAt(tree, Head(frames).path))
             THEN <<Head(frames).path>>
             ELSE <<>>)

OpenLists == OpenListsOf(stack)

\* d has the shape of a helper: function h() { h = _ngAsyncToGenerator(g); return ...; }
IsHelperShaped(d) ==
    /\ d.kind = "FnDecl"
    /\ Len(d.kids) = 1
    /\ Len(d.kids[1].kids) = 2
    /\ d.kids[1].kids[1].kind = "ExprStmt"
    /\ d.kids[1].kids[1].kids[1].kind = "Assign"
    /\ d.kids[1].kids[1].kids[1].kids[1].kind = "Call"
    /\ Len(d.kids[1].kids[1].kids[1].kids[1].kids) = 2
    /\ IsHelperOf(d, d.sym, GeneratorOf(d))

DeclOf(item) == IF item.kind = "ExportDecl" THEN item.kids[1] ELSE item

\* item is the declaration `function f() { return h.apply(this, arguments); }`
\* with h = _f
IsForwardingTo(item, h) ==
    /\ DeclOf(item).kind = "FnDecl"
    /\ h = "_" \o DeclOf(item).sym
    /\ DeclOf(item).kids = <<Node("Block", None, <<ForwardingReturn(h)>>)>>

HoldsDeclarationOf(list, helper) ==
    \E i \in 1..Len(list.kids) : IsForwardingTo(list.kids[i], helper.sym)

C3_HelpersStayAtTheirLevel ==
    /\ Len(scopes) = Len(OpenLists) + 1
    /\ scopes[1] = <<>>
    /\ \A j \in 1..Len(OpenLists) :
           \A i \in 1..Len(scopes[j + 1]) :
               HoldsDeclarationOf(NodeAt(tree, OpenLists[j]), scopes[j + 1][i])
    /\ \A p \in PathsOf(tree) :
           IsList(NodeAt(tree, p))
           => \A i \in 1..Len(NodeAt(tree, p).kids) :
                  IsHelperShaped(NodeAt(tree, p).kids[i])
                  => HoldsDeclarationOf(NodeAt(tree, p), NodeAt(tree, p).kids[i])

\* a helper waits in the frame of a function body while the module's frame
\* is open below it
C3_Witness ==
    /\ pass = 1
    /\ Len(scopes) = 3
    /\ Len(OpenLists) = 2
    /\ scopes[3] # <<>>
    /\ IsHelperShaped(scopes[3][1])
    /\ HoldsDeclarationOf(NodeAt(tree, OpenLists[2]), scopes[3][1])

(***************************************************************************)
(* C4: Hoist Placement turns a list L and a non-empty pending list H into  *)
(* L with H inserted as one block, in H's order, right after the last      *)
(* function declaration of L, or in front when L has none; the elements of *)
(* L keep their order.  Among module items an exported function            *)
(* declaration counts as a function declaration.                           *)
(***************************************************************************)
CountsAsFnDecl(fn, item) ==
    \/ item.kind = "FnDecl"
    \/ /\ fn = "insert_hoisted_module_items"
       /\ item.kind = "ExportDecl"
       /\ item.kids[1].kind = "FnDecl"

FnDeclPositions(fn, l) == { i \in 1..Len(l) : CountsAsFnDecl(fn, l[i]) }

AfterLastFnDecl(fn, l) ==
    IF FnDeclPositions(fn, l) = {}
    THEN 0
    ELSE CHOOSE i \in FnDeclPositions(fn, l) : \A j \in FnDeclPositions(fn, l) : j <= i

C4_HoistPlacement ==
    (splice.fn # "none" /\ splice.hoisted # <<>>)
    => splice.result =
           SubSeq(splice.list, 1, AfterLastFnDecl(splice.fn, splice.list))
           \o splice.hoisted
           \o SubSeq(splice.list, AfterLastFnDecl(splice.fn, splice.list) + 1,
                     Len(splice.list))

\* two helpers go between an exported function declaration and what follows it
C4_Witness ==
    /\ splice.fn = "insert_hoisted_module_items"
    /\ Len(splice.hoisted) = 2
    /\ Len(splice.list) = 3
    /\ splice.list[2].kind = "ExportDecl" /\ splice.list[2].kids[1].kind = "FnDecl"
    /\ ~CountsAsFnDecl(splice.fn, splice.list[3])
    /\ splice.result = <<splice.list[1], splice.list[2], splice.hoisted[1],
                         splice.hoisted[2], splice.list[3]>>

\* the helpers go in front of a list that holds no function declaration
C4_WitnessNoFnDecl ==
    /\ splice.fn = "insert_hoisted_stmts"
    /\ splice.hoisted # <<>>
    /\ Len(splice.list) = 2
    /\ FnDeclPositions(splice.fn, splice.list) = {}
    /\ splice.result = splice.hoisted \o splice.list

(***************************************************************************)
(* C5: after the pass every list holds exactly one helper `_<name>` for    *)
(* each async function declaration with an await of its own that it holds  *)
(* directly: no helper is lost, duplicated or left in the scope stack, and *)
(* every helper comes after its declaration.  The module holding only such *)
(* a declaration `foo` ends with the two declarations foo, _foo.            *)
(***************************************************************************)
HelperPositions(list, h) ==
    { i \in 1..Len(list.kids) : IsHelperShaped(list.kids[i]) /\ list.kids[i].sym = h }

ForwardingPositions(list, h) ==
    { i \in 1..Len(list.kids) : IsForwardingTo(list.kids[i], h) }

HelperNames(list) ==
    { list.kids[i].sym : i \in { j \in 1..Len(list.kids) : IsHelperShaped(list.kids[j]) } }
    \cup { "_" \o DeclOf(list.kids[i]).sym :
             i \in { j \in 1..Len(list.kids) : DeclOf(list.kids[j]).kind = "FnDecl" } }

\* the async function declarations of the input with an await of their own
RewrittenDecls(t) ==
    { p \in PathsOf(t) :
        /\ NodeAt(t, p).kind = "FnDecl" /\ NodeAt(t, p).is_async
        /\ HasBody(NodeAt(t, p))
        /\ AwaitInScope(NodeAt(t, p).kids[1]) }

HelpersIn(t) == { p \in PathsOf(t) : IsHelperShaped(NodeAt(t, p)) }

C5_HelperConservation ==
    FirstPassDone =>
        /\ scopes = << <<>> >>
        /\ Cardinality(HelpersIn(tree)) = Cardinality(RewrittenDecls(input))
        /\ \A p \in PathsOf(tree) :
               IsList(NodeAt(tree, p))
               => \A h \in HelperNames(NodeAt(tree, p)) :
                      /\ Cardinality(HelperPositions(NodeAt(tree, p), h))
                           = Cardinality(ForwardingPositions(NodeAt(tree, p), h))
                      /\ \A i \in HelperPositions(NodeAt(tree, p), h) :
                             \E j \in ForwardingPositions(NodeAt(tree, p), h) : j < i
        /\ (input = Module(<<FooDecl>>))
           => /\ Len(tree.kids) = 2
              /\ IsForwardingTo(tree.kids[1], "_foo") /\ tree.kids[1].sym = "foo"
              /\ IsHelperShaped(tree.kids[2]) /\ tree.kids[2].sym = "_foo"

\* a module of three declarations with awaits of their own, and a statement
C5_Witness ==
    /\ FirstPassDone
    /\ Len(input.kids) = 3
    /\ Cardinality(RewrittenDecls(input)) = 2
    /\ Cardinality(HelpersIn(tree)) = 2
    /\ Len(tree.kids) = 5
    /\ ~IsFnDeclItem(input.kids[2])

(***************************************************************************)
(* C6: within one pass no two wrapper locals (`var _ref<k> =               *)
(* _ngAsyncToGenerator(...)`) introduced by arrow and function-expression  *)
(* rewrites carry the same name, anywhere in the tree, however many async  *)
(* arrows and function expressions there are and however they nest.        *)
(***************************************************************************)
IsWrapperLocal(n) ==
    /\ n.kind = "VarDecl"
    /\ Len(n.kids) = 1
    /\ n.kids[1].kind = "Call"
    /\ Len(n.kids[1].kids) = 2
    /\ n.kids[1].kids[1] = Node("Ident", "_ngAsyncToGenerator", <<>>)

WrapperLocals(t) == { p \in PathsOf(t) : IsWrapperLocal(NodeAt(t, p)) }

WrapperNames(t) == { NodeAt(t, p).sym : p \in WrapperLocals(t) }

C6_RefNamesDistinct ==
    pass = 1 =>
        /\ \A p, q \in WrapperLocals(tree) :
               NodeAt(tree, p).sym = NodeAt(tree, q).sym => p = q
        /\ \A i, j \in 1..Len(refs) : refs[i] = refs[j] => i = j
        /\ WrapperNames(tree) \subseteq { refs[i] : i \in 1..Len(refs) }
        /\ Done => /\ Cardinality(WrapperLocals(tree)) = Len(refs)
                   /\ WrapperNames(tree) = { refs[i] : i \in 1..Len(refs) }

\* three rewrites in one pass, one of them nested in another construct
C6_Witness ==
    /\ FirstPassDone
    /\ Cardinality(WrapperLocals(tree)) = 3
    /\ Cardinality(WrapperNames(tree)) = 3

\* two rewrites, the wrapper of one inside the generator of the other
C6_WitnessNested ==
    /\ FirstPassDone
    /\ \E p, q \in WrapperLocals(tree) :
           /\ Len(p) < Len(q)
           /\ SubSeq(q, 1, Len(p) + 1) = p \o <<1>>
           /\ NodeAt(tree, p).sym # NodeAt(tree, q).sym

(***************************************************************************)
(* C7 (as stated): the counter is incremented once per arrow or function   *)
(* expression rewrite and at no other time, so that after n rewrites it    *)
(* stands at n and the names in the output are exactly _ref, _ref1, ...,   *)
(* _ref<n-1>, handed out in the order of the rewrites, without gaps.       *)
(***************************************************************************)
RefName(k) == IF k = 0 THEN "_ref" ELSE "_ref" \o ToString(k)

C7_CounterCountsRewrites ==
    FirstPassDone =>
        /\ count = Len(refs)
        /\ \A i \in 1..Len(refs) : refs[i] = RefName(i - 1)
        /\ WrapperNames(tree) = { RefName(k) : k \in 0..(Len(refs) - 1) }

\* `var w = async u => u; var v = async u => await u;` leaves `_ref1` as the
\* only reference name of the output
C7_Gap ==
    /\ FirstPassDone
    /\ Len(input.kids) = 2
    /\ input.kids[1] = var_decl("w", Arrow(TRUE, <<"u">>, ident("u")))
    /\ input.kids[2] = var_decl("v", Arrow(TRUE, <<"u">>, AwaitExpr(ident("u"))))
    /\ refs = <<"_ref1">>
    /\ WrapperNames(tree) = {"_ref1"}
    /\ count = 2

(***************************************************************************)
(* C8: an async class or object method with an await of its own gets the   *)
(* body [`var _this = this;` exactly when a `this` was replaced] followed  *)
(* by the one statement `return _ngAsyncToGenerator(function*(){..})();`.  *)
(* The generator body is the method body with its own awaits as yields and *)
(* every `this` outside nested ordinary functions turned into `_this`.     *)
(***************************************************************************)
\* n refers to `this` outside nested ordinary functions
RECURSIVE RefersToThis(_)
RefersToThis(n) ==
    \/ n.kind = "This"
    \/ /\ n.kind \notin FunctionHolders
       /\ \E i \in 1..Len(n.kids) : RefersToThis(n.kids[i])

\* st is `return _ngAsyncToGenerator(g)();`
IsImmediateReturn(st) ==
    /\ st.kind = "Return" /\ Len(st.kids) = 1
    /\ st.kids[1].kind = "Call" /\ Len(st.kids[1].kids) = 1
    /\ st.kids[1].kids[1].kind = "Call" /\ Len(st.kids[1].kids[1].kids) = 2
    /\ st.kids[1].kids[1].kids[1] = Node("Ident", "_ngAsyncToGenerator", <<>>)

CaptureStmt == Node("VarDecl", "_this", <<Node("This", None, <<>>)>>)

MethodRewritten(before, after) ==
    LET stmts == after.kids[1].kids
        ret   == stmts[Len(stmts)]
        g     == ret.kids[1].kids[1].kids[2]
    IN  /\ after.kind = before.kind /\ after.sym = before.sym /\ ~after.is_async
        /\ Len(after.kids) = 1 /\ after.kids[1].kind = "Block"
        /\ Len(stmts) = (IF RefersToThis(before.kids[1]) THEN 2 ELSE 1)
        /\ RefersToThis(before.kids[1]) => stmts[1] = CaptureStmt
        /\ IsImmediateReturn(ret)
        /\ IsGenerator(g, <<>>)
        /\ Rewritten(before.kids[1], g.kids[1], TRUE, TRUE)
        /\ ~RefersToThis(g.kids[1])

C8_MethodRewrite ==
    (last.handler \in {"class_method", "object_method"}
     /\ last.before.is_async /\ HasBody(last.before)
     /\ AwaitInScope(last.before.kids[1]))
    => MethodRewritten(last.before, last.after)

\* class K { async load(u) { return await this.fetch(); } }
C8_Witness ==
    /\ last.handler = "class_method"
    /\ last.before.is_async
    /\ last.before.kids = <<block(<<return_stmt(AwaitExpr(ThisFetch))>>)>>
    /\ last.after.kids =
         <<block(<<CaptureStmt,
                   return_stmt(immediate_call(ng_async_wrapper(
                       generator_fn_expr(<<>>, block(<<return_stmt(YieldExpr(
                           call_expr(member_expr(ident("_this"), "fetch"), <<>>),
                           FALSE))>>)))))>>)>>

\* an async method with an await and no `this`: no capture statement
C8_WitnessNoCapture ==
    /\ last.handler = "object_method"
    /\ last.before.is_async /\ HasBody(last.before)
    /\ AwaitInScope(last.before.kids[1])
    /\ ~RefersToThis(last.before.kids[1])
    /\ Len(last.after.kids[1].kids) = 1

(***************************************************************************)
(* C9 (as stated): an async arrow with an await of its own whose body      *)
(* refers to `this`, directly or through nested arrows, is replaced by     *)
(* `(function(_this){ var ref = _ngAsyncToGenerator(g); return function()  *)
(* { return ref.apply(_this, arguments); }; })(this)` where the body of g  *)
(* says `_this` for `this`; without `this` in the body the wrapper has no  *)
(* parameter and no argument and forwards with ref.apply(this, arguments). *)
(***************************************************************************)
\* e is `function(params) { var ref = _ngAsyncToGenerator(g); return
\* function() { return ref.apply(self, arguments); }; }` applied to args
IsArrowWrapper(e, params, args, self) ==
    /\ e.kind = "Call" /\ Len(e.kids) = 1 + Len(args)
    /\ SubSeq(e.kids, 2, Len(e.kids)) = args
    /\ e.kids[1].kind = "Fn" /\ e.kids[1].sym = None
    /\ ~e.kids[1].is_async /\ ~e.kids[1].is_generator
    /\ e.kids[1].params = params
    /\ Len(e.kids[1].kids) = 1
    /\ LET stmts == e.kids[1].kids[1].kids
       IN  /\ Len(stmts) = 2
           /\ IsWrapperLocal(stmts[1])
           /\ stmts[2] =
                Node("Return", None, <<
                    Function("Fn", None, FALSE, FALSE, <<>>, <<
                        Node("Block", None, <<
                            Node("Return", None, <<
                                Node("Call", None, <<
                                    Node("Member", "apply",
                                         <<Node("Ident", stmts[1].sym, <<>>)>>),
                                    self,
                                    Node("Ident", "arguments", <<>>)>>)>>)>>)>>)>>)

\* the body of the generator held by an arrow wrapper
WrapperGeneratorBody(e) == e.kids[1].kids[1].kids[1].kids[1].kids[2].kids[1]

BodyBlock(arrow) ==
    IF arrow.kids[1].kind = "Block"
    THEN arrow.kids[1]
    ELSE Node("Block", None, <<Node("Return", None, <<arrow.kids[1]>>)>>)

C9_ArrowCapturesThis ==
    (last.handler = "arrow" /\ last.before.is_async
     /\ AwaitInScope(last.before.kids[1]))
    => IF RefersToThis(BodyBlock(last.before))
       THEN /\ IsArrowWrapper(last.after, <<[pat |-> "_this", decorators |-> <<>>]>>,
                              <<Node("This", None, <<>>)>>,
                              Node("Ident", "_this", <<>>))
            /\ Rewritten(BodyBlock(last.before), WrapperGeneratorBody(last.after),
                         TRUE, TRUE)
            /\ ~RefersToThis(WrapperGeneratorBody(last.after))
       ELSE /\ IsArrowWrapper(last.after, <<>>, <<>>, Node("This", None, <<>>))
            /\ Rewritten(BodyBlock(last.before), WrapperGeneratorBody(last.after),
                         TRUE, FALSE)

\* `async u => await this.fetch()` has been replaced by a wrapper without
\* parameter or argument whose generator still says `this`
C9_ThisLost ==
    /\ last.handler = "arrow"
    /\ last.before.kids = <<AwaitExpr(ThisFetch)>>
    /\ IsArrowWrapper(last.after, <<>>, <<>>, Node("This", None, <<>>))
    /\ RefersToThis(WrapperGeneratorBody(last.after))


(***************************************************************************)
(* C10: on an input without any async construct the pass changes no node,  *)
(* inserts no helper and leaves the counter at 0, so the tree after two    *)
(* passes is the tree after one.                                           *)
(***************************************************************************)
NoAsync(t) == \A p \in PathsOf(t) : ~NodeAt(t, p).is_async

C10_NoAsyncIsIdentity ==
    NoAsync(input) =>
        /\ tree = input
        /\ count = 0
        /\ refs = <<>>
        /\ \A i \in 1..Len(scopes) : scopes[i] = <<>>
        /\ Done => scopes = << <<>> >>
        /\ pass = 2 => first = <<input>>

\* the second pass over a program that holds a construct, none of them async,
\* has ended with the tree the first pass left
C10_Witness ==
    /\ Done /\ pass = 2
    /\ NoAsync(input)
    /\ tree = first[1]
    /\ \E p \in PathsOf(input) : NodeAt(input, p).kind \in ConstructKinds

(***************************************************************************)
(* C11: a construct transformer (function declaration, function            *)
(* expression, class method, object method) given a construct that is      *)
(* flagged async and has no body leaves the construct as it is (flag,      *)
(* name, parameters), returns no helper and no replacement expression,     *)
(* records nothing for hoisting, and the walk goes on to its end.          *)
(***************************************************************************)
BodylessAsync(c) ==
    /\ c.kind \in {"FnDecl", "Fn", "ClassMethod", "MethodProp"}
    /\ c.is_async
    /\ ~HasBody(c)

C11_BodylessUntouched ==
    /\ (last.handler # "none" /\ BodylessAsync(last.before))
       => /\ last.after = last.before
          /\ last.helper = <<>>
          /\ ~last.replaced
    /\ (input \in BodylessModules /\ FirstPassDone)
       => /\ \A p \in PathsOf(input) :
                 BodylessAsync(NodeAt(input, p)) => Occurs(NodeAt(input, p), tree)
          /\ Cardinality(HelpersIn(tree)) = Cardinality(RewrittenDecls(input))

\* the walk over `async function amb(a); async function foo(a, b) {...}` has
\* ended: amb is in the output as it was, foo has been rewritten after it
C11_Witness ==
    /\ FirstPassDone
    /\ input = Module(<<BodylessDecl, FooDecl>>)
    /\ Len(tree.kids) = 3
    /\ tree.kids[1] = BodylessDecl
    /\ IsForwardingTo(tree.kids[2], "_foo")
    /\ IsHelperShaped(tree.kids[3]) /\ tree.kids[3].sym = "_foo"

(***************************************************************************)
(* C12 (as stated): whenever a construct transformer runs on a node, no    *)
(* construct nested inside that node is still flagged async with a body:   *)
(* every nested async construct was rewritten or reduced to non-async      *)
(* before, innermost first.                                                *)
(***************************************************************************)
StillAsync(n) == n.is_async /\ HasBody(n)

C12_InnermostFirst ==
    last.handler # "none"
    => \A p \in PathsOf(last.before) : p # <<>> => ~StillAsync(NodeAt(last.before, p))

\* The same for the kinds the walker has a handler for.
C12_HandledInnermostFirst ==
    last.handler # "none"
    => \A p \in PathsOf(last.before) :
           (p # <<>> /\ NodeAt(last.before, p).kind \in ConstructKinds)
           => ~StillAsync(NodeAt(last.before, p))

\* transform_fn_decl has moved a body into the helper's generator that holds
\* a private method still flagged async, with its await
C12_AsyncInsideGenerator ==
    /\ last.handler = "fn_decl"
    /\ last.helper # <<>>
    /\ Occurs(PrivateLoad, last.before)
    /\ Occurs(PrivateLoad, last.helper[1])

(***************************************************************************)
(* C13 (as stated): the replacement of a named async function expression   *)
(* with an await of its own carries the name on the inner forwarding       *)
(* function only (the wrapper function and the generator are anonymous),   *)
(* the name is declared nowhere in the replacement, and every reference to *)
(* the name in the generator body still resolves to the function: it lies  *)
(* inside the function expression that carries the name.  For an           *)
(* anonymous function expression the forwarding function is anonymous.     *)
(***************************************************************************)
\* the parts of `(function () { var ref = _ngAsyncToGenerator(g); return fwd; })()`
IifeFunction(e) == e.kids[1]
IifeGenerator(e) == e.kids[1].kids[1].kids[1].kids[1].kids[2]
IifeForwarding(e) == e.kids[1].kids[1].kids[2].kids[1]

\* the identifier at path p of t lies inside a function expression named name
InsideFnNamed(t, p, name) ==
    \E len \in 0..(Len(p) - 1) :
        /\ NodeAt(t, Prefix(p, len)).kind = "Fn"
        /\ NodeAt(t, Prefix(p, len)).sym = name

C13_NameOnForwardingFunction ==
    (last.handler = "fn_expr" /\ last.replaced)
    => /\ last.after.kind = "Call"
       /\ IifeFunction(last.after).kind = "Fn" /\ IifeFunction(last.after).sym = None
       /\ IifeGenerator(last.after).kind = "Fn" /\ IifeGenerator(last.after).sym = None
       /\ IifeGenerator(last.after).is_generator
       /\ IifeForwarding(last.after).kind = "Fn"
       /\ IifeForwarding(last.after).sym = last.before.sym
       /\ \A p \in PathsOf(last.after) :
              NodeAt(last.after, p).kind \in {"VarDecl", "FnDecl"}
              => NodeAt(last.after, p).sym # last.before.sym

C13_NameStillResolves ==
    /\ C13_NameOnForwardingFunction
    /\ (last.handler = "fn_expr" /\ last.replaced /\ last.before.sym # None)
       => \A p \in PathsOf(last.after) :
              NodeAt(last.after, p) = Node("Ident", last.before.sym, <<>>)
              => InsideFnNamed(last.after, p, last.before.sym)

\* `async function nf(u) { return await nf(u); }` has been replaced, and the
\* call of nf now stands in the anonymous generator, beside the function
\* expression that carries the name and not inside it
C13_NameUnbound ==
    /\ last.handler = "fn_expr" /\ last.replaced
    /\ last.before.sym = "nf"
    /\ IifeForwarding(last.after).sym = "nf"
    /\ \E p \in PathsOf(IifeGenerator(last.after)) :
           NodeAt(IifeGenerator(last.after), p) = Node("Ident", "nf", <<>>)
    /\ ~Occurs(Node("Ident", "nf", <<>>), IifeForwarding(last.after))

(***************************************************************************)
(* C14 (as stated): for an async method with parameters and an await of    *)
(* its own, the generator takes no parameters and is called with no        *)
(* context and no arguments, while the method left behind still has the    *)
(* method's original parameter list, so every parameter the generator      *)
(* body refers to is bound by the enclosing method.                        *)
(***************************************************************************)
ParamNames(params) == { params[i].pat : i \in 1..Len(params) }

MethodGenerator(method) ==
    LET stmts == method.kids[1].kids
    IN  stmts[Len(stmts)].kids[1].kids[1].kids[2]

MethodWithParamsRewritten ==
    /\ last.handler \in {"class_method", "object_method"}
    /\ last.before.is_async /\ HasBody(last.before)
    /\ AwaitInScope(last.before.kids[1])
    /\ last.before.params # <<>>

\* The half about the generator and its call.
C14_GeneratorTakesNothing ==
    MethodWithParamsRewritten
    => LET stmts == last.after.kids[1].kids
       IN  /\ IsImmediateReturn(stmts[Len(stmts)])
           /\ MethodGenerator(last.after).params = <<>>
           /\ MethodGenerator(last.after).is_generator

C14_ParamsStayBound ==
    /\ C14_GeneratorTakesNothing
    /\ MethodWithParamsRewritten
       => /\ last.after.params = last.before.params
          /\ \A name \in ParamNames(last.before.params) :
                 Occurs(Node("Ident", name, <<>>), MethodGenerator(last.after))
                 => name \in ParamNames(last.after.params)

\* `async load(u) { return await g(u); }` has become a method without
\* parameters whose generator body still refers to u
C14_ParamUnbound ==
    /\ last.handler = "class_method"
    /\ last.before.is_async
    /\ ParamNames(last.before.params) = {"u"}
    /\ last.after.params = <<>>
    /\ MethodGenerator(last.after).params = <<>>
    /\ Occurs(Node("Ident", "u", <<>>), MethodGenerator(last.after))

(***************************************************************************)
(* C15: when a handler has run its construct transformer, what stands at   *)
(* the construct's place is exactly one of: the construct as given; the    *)
(* construct as given with only the async flag cleared; the finished       *)
(* rewritten form (body, parameters and flags final).  At no step of the   *)
(* walk does the tree, or a helper waiting to be hoisted, hold a node      *)
(* whose body or parameters were taken and not replaced.                   *)
(***************************************************************************)
Unchanged(c) == c.after = c.before

OnlyFlagCleared(c) ==
    /\ c.before.is_async
    /\ c.after = [c.before EXCEPT !.is_async = FALSE]

FullyRewritten(c) ==
    /\ c.before.is_async
    /\ ~c.after.is_async
    /\ CASE c.handler = "fn_decl" ->
              /\ IsForwardingTo(c.after, "_" \o c.before.sym)
              /\ c.after.sym = c.before.sym /\ c.after.params = <<>>
              /\ c.helper # <<>> /\ IsHelperShaped(c.helper[1])
         [] c.handler \in {"arrow", "fn_expr"} ->
              /\ c.replaced
              /\ c.after.kind = "Call"
              /\ IifeFunction(c.after).kind = "Fn" /\ HasBody(IifeFunction(c.after))
              /\ IifeGenerator(c.after).kind = "Fn" /\ IifeGenerator(c.after).is_generator
              /\ HasBody(IifeGenerator(c.after))
              /\ IifeGenerator(c.after).params =
                     (IF c.handler = "arrow"
                      THEN [i \in 1..Len(c.before.params) |-> Param(c.before.params[i])]
                      ELSE c.before.params)
              /\ IifeForwarding(c.after).kind = "Fn" /\ HasBody(IifeForwarding(c.after))
         [] c.handler \in {"class_method", "object_method"} ->
              /\ c.after.kind = c.before.kind /\ c.after.sym = c.before.sym
              /\ c.after.params = <<>>
              /\ HasBody(c.after)
              /\ IsImmediateReturn(c.after.kids[1].kids[Len(c.after.kids[1].kids)])
              /\ MethodGenerator(c.after).is_generator
              /\ HasBody(MethodGenerator(c.after))
         [] OTHER -> FALSE

\* n was emptied by a transformer: a function without the body it had, or a
\* node left behind by Take
Emptied(n) ==
    \/ n.kind = "Invalid"
    \/ n.kind \in FunctionHolders \cup {"Arrow"} /\ ~HasBody(n) /\ ~Occurs(n, input)
    \/ n.kind = "Arrow" /\ n.is_async /\ n.kids = <<Node("Block", None, <<>>)>>

NothingEmptied(t) == \A p \in PathsOf(t) : ~Emptied(NodeAt(t, p))

C15_ThreeStates ==
    /\ last.handler # "none"
       => Cardinality({ i \in 1..3 :
                          \/ i = 1 /\ Unchanged(last)
                          \/ i = 2 /\ OnlyFlagCleared(last)
                          \/ i = 3 /\ FullyRewritten(last) }) = 1
    /\ NothingEmptied(tree)
    /\ \A i \in 1..Len(scopes) : \A j \in 1..Len(scopes[i]) : NothingEmptied(scopes[i][j])

\* visit_mut_expr has put the wrapper in the place of an async arrow whose
\* body and parameters transform_arrow_fn had taken
C15_Witness ==
    /\ last.handler = "arrow"
    /\ FullyRewritten(last)
    /\ last.before.params # <<>>
    /\ Emptied(transform_arrow_fn(last.before, last.ref_name).node)
    /\ ~Done

(***************************************************************************)
(* C16 (as stated): no identifier the pass introduces (a `_ref`/`_refN`    *)
(* wrapper local, a `_<name>` helper declaration, the `_this` binding) is  *)
(* equal to an identifier of the input program at a place where the two    *)
(* resolve to the same binding: a name introduced for a construct is not a *)
(* name the input uses inside that construct, whose body moves under the   *)
(* new binding.  (Identifiers are compared by symbol: the input's and the  *)
(* generated ones all carry the empty syntax context.)                     *)
(***************************************************************************)
\* the names a node declares or refers to
NamesUsed(n) ==
    { NodeAt(n, p).sym :
        p \in { q \in PathsOf(n) :
                  NodeAt(n, q).kind \in {"Ident", "VarDecl", "FnDecl", "Assign"} } }

\* the names the call of a transformer has introduced at the construct
IntroducedNames(c) ==
    (IF c.replaced THEN {c.ref_name} ELSE {})
    \cup { c.helper[i].sym : i \in 1..Len(c.helper) }
    \cup (IF c.after # c.before /\ Occurs(CaptureStmt, c.after) /\ ~Occurs(CaptureStmt, c.before)
          THEN {"_this"}
          ELSE {})

C16_GeneratedNamesFresh ==
    last.handler # "none"
    => \A name \in IntroducedNames(last) :
           ~(name \in NamesUsed(input) /\ name \in NamesUsed(last.before))

\* `async (u) => await _ref` has been replaced: the wrapper declares `_ref`
\* and the generator body under it yields the input's `_ref`
C16_RefCaptured ==
    /\ last.handler = "arrow" /\ last.replaced
    /\ last.ref_name = "_ref"
    /\ Occurs(Node("Ident", "_ref", <<>>), input)
    /\ IifeFunction(last.after).kids[1].kids[1].kind = "VarDecl"
    /\ IifeFunction(last.after).kids[1].kids[1].sym = "_ref"
    /\ Occurs(YieldExpr(Node("Ident", "_ref", <<>>), FALSE), IifeGenerator(last.after))

(***************************************************************************)
(* C17 (as stated): for every async construct with a body, the check that  *)
(* decides between clearing the flag only and the full rewrite is true     *)
(* exactly when the body (a block, or the bare expression of an arrow)     *)
(* holds an await outside nested function and arrow bodies, at any depth   *)
(* of sub-expression.  The outcome of the check is read off the            *)
(* transformer's result: the flag alone was cleared iff the check was      *)
(* false.                                                                  *)
(***************************************************************************)
C17_CheckExact ==
    (last.handler # "none" /\ last.before.is_async /\ HasBody(last.before))
    => (OnlyFlagCleared(last) <=> ~AwaitInScope(last.before.kids[1]))

\* `async (u) => g(await x)` has only lost its flag: the await is now in a
\* plain arrow
C17_AwaitLeftBehind ==
    /\ last.handler = "arrow"
    /\ last.before.kids[1].kind = "Call"
    /\ AwaitInScope(last.before.kids[1])
    /\ OnlyFlagCleared(last)
    /\ ~last.after.is_async /\ AwaitInScope(last.after.kids[1])

\* The same check restricted to constructs whose body is a block.
C17_CheckExactOnBlocks ==
    (last.handler # "none" /\ last.before.is_async /\ HasBody(last.before)
     /\ last.before.kids[1].kind = "Block")
    => (OnlyFlagCleared(last) <=> ~AwaitInScope(last.before.kids[1]))

(***************************************************************************)
(* The traversals of transforms/helpers.rs and of lib.rs applied to a      *)
(* body on their own.  `input` is the body, `tree` what a rewriter has     *)
(* made of it, `last` the application (replaced: the boolean a probe       *)
(* reports, or the rewriter's flag), `pass` counts the applications of a   *)
(* rewriter to its own result.                                             *)
(***************************************************************************)
\* Object-literal accessors and class constructors: swc nodes that hold
\* their body directly, not through a `Function`.
GetterProp(key, stmts) == Node("GetterProp", key, <<block(stmts)>>)

SetterProp(key, param, stmts) ==
    Function("SetterProp", key, FALSE, FALSE, <<Param(param)>>, <<block(stmts)>>)

Constructor(params, stmts) ==
    Function("Constructor", "constructor", FALSE, FALSE, params, <<block(stmts)>>)

ThisW == member_expr(ThisExpr, "w")

ProbeExprs ==
    { ident("x"),
      ThisW,
      AwaitExpr(ident("x")),
      AwaitExpr(AwaitExpr(ThisW)),
      call_expr(ident("g"), <<AwaitExpr(ident("x"))>>),
      YieldExpr(ident("z"), FALSE),
      YieldExpr(AwaitExpr(ident("y")), TRUE),
      Arrow(FALSE, <<>>, AwaitExpr(ThisW)),
      Arrow(FALSE, <<>>, Arrow(FALSE, <<>>, ThisW)),
      FnExpr(None, FALSE, <<>>, <<return_stmt(AwaitExpr(ThisW))>>),
      ObjectLit(<<MethodProp("m", FALSE, <<>>, <<return_stmt(ThisW)>>)>>),
      ObjectLit(<<GetterProp("v", <<return_stmt(ThisW)>>)>>),
      ObjectLit(<<SetterProp("v", "a", <<expr_stmt(assign_expr("b", ThisW))>>)>>) }

ProbeStmts ==
    { expr_stmt(e) : e \in ProbeExprs }
    \cup { ClassDecl("L", <<Constructor(<<>>, <<expr_stmt(ThisW)>>)>>),
           ClassDecl("L", <<PrivateMethod("p", TRUE, <<>>, <<return_stmt(AwaitExpr(ThisW))>>)>>),
           FnDecl("h", FALSE, <<>>, <<return_stmt(AwaitExpr(ThisW))>>) }

MaxStmts == 2

ProbeBodies == { block(stmts) : stmts \in SeqsUpTo(ProbeStmts, MaxStmts) }

ProbeInit ==
    /\ input \in ProbeBodies
    /\ tree = input
    /\ stack = <<>>
    /\ scopes = ScopeStack_new
    /\ count = 0
    /\ pass = 1
    /\ first = <<>>
    /\ refs = <<>>
    /\ splice = NoSplice
    /\ last = NoCall

\* create_generator_function: body.visit_mut_with(&mut AwaitToYieldVisitor),
\* on a body and then once more on what it made of the body
ApplyAwaitToYieldVisitor ==
    /\ pass = 1
    /\ last.handler \in {"none", "AwaitToYieldVisitor"}
    /\ tree' = AwaitToYieldVisitor(tree)
    /\ last' = Call("AwaitToYieldVisitor", tree, AwaitToYieldVisitor(tree), <<>>, FALSE, None)
    /\ pass' = IF last.handler = "none" THEN 1 ELSE 2
    /\ first' = IF last.handler = "none" THEN <<>> ELSE <<tree>>
    /\ UNCHANGED <<input, stack, scopes, count, refs, splice>>

\* lib.rs create_generator_function: the same with the visitor of lib.rs
ApplyLibAwaitToYieldVisitor ==
    /\ pass = 1
    /\ last.handler \in {"none", "LibAwaitToYieldVisitor"}
    /\ tree' = LibAwaitToYieldVisitor(tree)
    /\ last' = Call("LibAwaitToYieldVisitor", tree, LibAwaitToYieldVisitor(tree),
                    <<>>, FALSE, None)
    /\ pass' = IF last.handler = "none" THEN 1 ELSE 2
    /\ first' = IF last.handler = "none" THEN <<>> ELSE <<tree>>
    /\ UNCHANGED <<input, stack, scopes, count, refs, splice>>

\* HasAwaitVisitor::check(body)
ApplyHasAwaitVisitor ==
    /\ last.handler = "none"
    /\ last' = Call("HasAwaitVisitor", tree, tree, <<>>, HasAwaitVisitor_check(tree), None)
    /\ UNCHANGED <<tree, input, stack, scopes, count, pass, first, refs, splice>>

\* HasThisVisitor::check(body)
ApplyHasThisVisitor ==
    /\ last.handler = "none"
    /\ last' = Call("HasThisVisitor", tree, tree, <<>>, HasThisVisitor_check(tree), None)
    /\ UNCHANGED <<tree, input, stack, scopes, count, pass, first, refs, splice>>

\* create_generator_function: body.visit_mut_with(&mut this_visitor);
\* replaced is this_visitor.needs_this
ApplyThisCaptureVisitor ==
    /\ last.handler = "none"
    /\ LET v == ThisCaptureVisitor(tree)
       IN  /\ tree' = v.node
           /\ last' = Call("ThisCaptureVisitor", tree, v.node, <<>>, v.needs_this, None)
    /\ UNCHANGED <<input, stack, scopes, count, pass, first, refs, splice>>

\* lib.rs create_generator_function: the same with the visitor of lib.rs
ApplyLibThisCaptureVisitor ==
    /\ last.handler = "none"
    /\ LET v == LibThisCaptureVisitor(tree)
       IN  /\ tree' = v.node
           /\ last' = Call("LibThisCaptureVisitor", tree, v.node, <<>>, v.needs_this, None)
    /\ UNCHANGED <<input, stack, scopes, count, pass, first, refs, splice>>

\* The arguments and the result of a call of create_generator_function.
GeneratorCall(handler, params, body, capture_this, result) ==
    [handler |-> handler, before |-> body, after |-> result.func, helper |-> <<>>,
     replaced |-> result.needs_this, ref_name |-> None,
     params |-> params, capture_this |-> capture_this]

ProbeParams == { <<>>, Params(<<"a", "b">>) }

\* create_generator_function(params, body, capture_this)
CallCreateGeneratorFunction ==
    /\ last.handler = "none"
    /\ \E params \in ProbeParams, capture_this \in BOOLEAN :
           last' = GeneratorCall("create_generator_function", params, tree, capture_this,
                                 create_generator_function(params, tree, capture_this))
    /\ UNCHANGED <<tree, input, stack, scopes, count, pass, first, refs, splice>>

\* lib.rs create_generator_function(params, body, is_method)
CallLibCreateGeneratorFunction ==
    /\ last.handler = "none"
    /\ \E params \in ProbeParams, is_method \in BOOLEAN :
           last' = GeneratorCall("LibCreateGeneratorFunction", params, tree, is_method,
                                 LibCreateGeneratorFunction(params, tree, is_method))
    /\ UNCHANGED <<tree, input, stack, scopes, count, pass, first, refs, splice>>

\* transform_arrow_fn on `async () => { body }`
CallTransformArrowFn ==
    /\ last.handler = "none"
    /\ LET arrow == Arrow(TRUE, <<>>, tree)
           t     == transform_arrow_fn(arrow, "_ref")
       IN  last' = Call("transform_arrow_fn", arrow,
                        IF t.result # <<>> THEN t.result[1] ELSE t.node,
                        <<>>, t.result # <<>>, "_ref")
    /\ UNCHANGED <<tree, input, stack, scopes, count, pass, first, refs, splice>>

ProbeNext ==
    \/ CallTransformArrowFn
    \/ CallCreateGeneratorFunction
    \/ CallLibCreateGeneratorFunction
    \/ ApplyAwaitToYieldVisitor
    \/ ApplyLibAwaitToYieldVisitor
    \/ ApplyHasAwaitVisitor
    \/ ApplyHasThisVisitor
    \/ ApplyThisCaptureVisitor
    \/ ApplyLibThisCaptureVisitor

SpecProbes == ProbeInit /\ [][ProbeNext]_vars

(***************************************************************************)
(* C18: the await rewriter changes no await, and the await probe counts no *)
(* await, that lies inside a nested function or arrow of the body they are *)
(* applied to; the `this` probe counts no `this` that lies inside a nested *)
(* ordinary function, and does count one that lies inside a nested arrow.  *)
(***************************************************************************)
\* the paths of n to a node of kind k with no node of `kinds` above it
PathsOutside(n, k, kinds) ==
    { p \in PathsOf(n) :
        /\ NodeAt(n, p).kind = k
        /\ \A len \in 0..(Len(p) - 1) : NodeAt(n, Prefix(p, len)).kind \notin kinds }

\* the paths of n to the nested constructs of `kinds`
PathsTo(n, kinds) == { p \in PathsOf(n) : NodeAt(n, p).kind \in kinds }

OrdinaryFunctions == {"FnDecl", "Fn", "ClassMethod", "MethodProp", "PrivateMethod"}

\* constructs that are not a `Function` and bind `this` themselves
OwnContextOthers == {"Constructor", "GetterProp", "SetterProp"}

C18_WitnessRewriter ==
    /\ last.handler = "AwaitToYieldVisitor"
    /\ last.after # last.before
    /\ \E p \in PathsTo(last.before, {"Arrow"}) :
           /\ NodeAt(last.before, p).kids[1].kind = "Await"
           /\ NodeAt(last.after, p) = NodeAt(last.before, p)

(***************************************************************************)
(* C19 (as stated): the `this` rewriter replaces by `_this` every `this`   *)
(* of the enclosing context (in the body itself or inside nested arrows at *)
(* any depth), replaces no `this` inside a nested construct that binds its *)
(* own `this` (ordinary function, method, constructor, getter, setter),    *)
(* changes nothing else, and reports true exactly when it replaced one.    *)
(***************************************************************************)
\* b is a with exactly the `this` outside the constructs of `own` replaced
SameButThis(a, b, own) ==
    /\ PathsOf(b) = PathsOf(a)
    /\ \A p \in PathsOf(a) :
           IF p \in PathsOutside(a, "This", own)
           THEN NodeAt(b, p) = Node("Ident", "_this", <<>>)
           ELSE [NodeAt(b, p) EXCEPT !.kids = <<>>] = [NodeAt(a, p) EXCEPT !.kids = <<>>]

CapturesContext(c, own) ==
    /\ SameButThis(c.before, c.after, own)
    /\ c.replaced <=> PathsOutside(c.before, "This", own) # {}

C19_CaptureBoundary ==
    last.handler \in {"ThisCaptureVisitor", "LibThisCaptureVisitor"}
    => CapturesContext(last, OrdinaryFunctions \cup OwnContextOthers)

\* What the rewriter of helpers.rs does: only swc Function nodes stop it.
C19_StopsAtFunctions ==
    last.handler = "ThisCaptureVisitor" => CapturesContext(last, OrdinaryFunctions)

\* What the rewriter of lib.rs does: Function nodes and arrows stop it.
C19_LibStopsAtFunctionsAndArrows ==
    last.handler = "LibThisCaptureVisitor"
    => CapturesContext(last, OrdinaryFunctions \cup {"Arrow"})

\* the rewriter of helpers.rs has turned the `this` of an object getter,
\* the only `this` of the body, into `_this` and reported a replacement
C19_GetterThisReplaced ==
    /\ last.handler = "ThisCaptureVisitor"
    /\ last.before = block(<<expr_stmt(ObjectLit(<<GetterProp("v", <<return_stmt(ThisW)>>)>>))>>)
    /\ last.after = block(<<expr_stmt(ObjectLit(<<
                         GetterProp("v", <<return_stmt(member_expr(ident("_this"), "w"))>>)>>))>>)
    /\ last.replaced

\* the rewriter of lib.rs has left the `this` inside a nested arrow
C19_LibArrowThisKept ==
    /\ last.handler = "LibThisCaptureVisitor"
    /\ last.before = block(<<expr_stmt(Arrow(FALSE, <<>>, Arrow(FALSE, <<>>, ThisW)))>>)
    /\ last.after = last.before
    /\ ~last.replaced

(***************************************************************************)
(* C20: the await rewriter applied to a body replaces every await outside  *)
(* nested functions and arrows, those inside the operand of another await  *)
(* included, by a non-delegating yield of the same operand; it changes     *)
(* nothing else (the yields the body already had keep their delegate flag);*)
(* on a body without such an await it changes nothing; applied to its own  *)
(* result it changes nothing.                                              *)
(***************************************************************************)
AwaitsRewritten(a, b) ==
    /\ PathsOf(b) = PathsOf(a)
    /\ \A p \in PathsOf(a) :
           IF p \in PathsOutside(a, "Await", OrdinaryFunctions \cup {"Arrow"})
           THEN [NodeAt(b, p) EXCEPT !.kids = <<>>] = Node("Yield", None, <<>>)
           ELSE [NodeAt(b, p) EXCEPT !.kids = <<>>] = [NodeAt(a, p) EXCEPT !.kids = <<>>]

C20_AwaitToYield ==
    last.handler \in {"AwaitToYieldVisitor", "LibAwaitToYieldVisitor"}
    => /\ AwaitsRewritten(last.before, last.after)
       /\ PathsOutside(last.before, "Await", OrdinaryFunctions \cup {"Arrow"}) = {}
          => last.after = last.before
       /\ pass = 2 => /\ first = <<last.before>>
                       /\ tree = first[1]

\* the rewriter has run a second time over `yield (yield this.w)`, which it
\* had made of `await (await this.w)`, and has left it as it was
C20_Witness ==
    /\ last.handler = "AwaitToYieldVisitor"
    /\ pass = 2
    /\ input = block(<<expr_stmt(AwaitExpr(AwaitExpr(ThisW))),
                       expr_stmt(YieldExpr(AwaitExpr(ident("y")), TRUE))>>)
    /\ tree = block(<<expr_stmt(YieldExpr(YieldExpr(ThisW, FALSE), FALSE)),
                      expr_stmt(YieldExpr(YieldExpr(ident("y"), FALSE), TRUE))>>)
    /\ first = <<tree>>

(***************************************************************************)
(* C21: create_generator_function(params, body, capture) returns a         *)
(* function that is a generator, not async, with exactly the given         *)
(* parameters in order and the body after the await rewriter; `this` is    *)
(* replaced only when capture is set (and then every `this` the body holds *)
(* directly is); the boolean returned is true exactly when capture is set  *)
(* and a `this` was replaced.                                              *)
(***************************************************************************)
IsThisPath(a, p) == NodeAt(a, p).kind = "This"

ThisReplacedAt(a, b, p) ==
    IsThisPath(a, p) /\ NodeAt(b, p) = Node("Ident", "_this", <<>>)

\* out is body after the await rewriter and, if capture is set, a
\* replacement of `this` that covers the ones the body holds directly
GeneratorBodyOf(body, out, capture) ==
    /\ PathsOf(out) = PathsOf(body)
    /\ \A p \in PathsOf(body) :
           IF p \in PathsOutside(body, "Await", OrdinaryFunctions \cup {"Arrow"})
           THEN [NodeAt(out, p) EXCEPT !.kids = <<>>] = Node("Yield", None, <<>>)
           ELSE IF IsThisPath(body, p)
           THEN /\ NodeAt(out, p) = NodeAt(body, p) \/ (capture /\ ThisReplacedAt(body, out, p))
                /\ (capture /\ p \in PathsOutside(body, "This",
                                      OrdinaryFunctions \cup OwnContextOthers \cup {"Arrow"}))
                   => ThisReplacedAt(body, out, p)
           ELSE [NodeAt(out, p) EXCEPT !.kids = <<>>] = [NodeAt(body, p) EXCEPT !.kids = <<>>]

C21_GeneratorBuilder ==
    last.handler \in {"create_generator_function", "LibCreateGeneratorFunction"}
    => /\ last.after.is_generator
       /\ ~last.after.is_async
       /\ last.after.params = last.params
       /\ Len(last.after.kids) = 1
       /\ GeneratorBodyOf(last.before, last.after.kids[1], last.capture_this)
       /\ last.replaced
          <=> /\ last.capture_this
              /\ \E p \in PathsOf(last.before) :
                     ThisReplacedAt(last.before, last.after.kids[1], p)

\* called without capture on a body that holds `this` and an await: the
\* await is a yield, `this` is still `this`, and the boolean is false
C21_Witness ==
    /\ last.handler = "create_generator_function"
    /\ ~last.capture_this
    /\ last.params = Params(<<"a", "b">>)
    /\ last.before = block(<<expr_stmt(AwaitExpr(AwaitExpr(ThisW))), expr_stmt(ThisW)>>)
    /\ last.after.kids[1] =
          block(<<expr_stmt(YieldExpr(YieldExpr(ThisW, FALSE), FALSE)), expr_stmt(ThisW)>>)
    /\ ~last.replaced

\* called with capture on the same body: both `this` are `_this`
C21_WitnessCapture ==
    /\ last.handler = "create_generator_function"
    /\ last.capture_this
    /\ last.before = block(<<expr_stmt(AwaitExpr(AwaitExpr(ThisW))), expr_stmt(ThisW)>>)
    /\ ~Occurs(ThisExpr, last.after)
    /\ last.replaced

(***************************************************************************)
(* C22: for a rewritten async arrow with an expression body E the          *)
(* generator body is the one-statement block `{ return E'; }`, E' being E  *)
(* after the await rewriter (and, for an arrow that refers to `this`,      *)
(* after the replacement of `this` that the arrow transformer asks for);   *)
(* the arrow's parameter patterns are the generator's parameters in the    *)
(* same order; for a block body the generator body is the block rewritten. *)
(***************************************************************************)
ArrowRewritten == last.handler = "arrow" /\ last.replaced

ThisKept(body, g) ==
    /\ PathsOf(g.kids[1]) = PathsOf(body)
    /\ \A p \in PathsOf(body) :
           NodeAt(body, p).kind = "This" => NodeAt(g.kids[1], p) = Node("This", None, <<>>)
    /\ NamesUsed(g.kids[1]) = NamesUsed(body)
    /\ \A i \in 1..Len(g.params) : g.params[i].pat # "_this"

C23_ThisNotReplaced ==
    /\ (last.handler = "fn_decl" /\ last.helper # <<>>)
       => LET h == last.helper[1]
          IN  /\ ThisKept(last.before.kids[1], GeneratorOf(h))
              /\ GeneratorOf(h).params = last.before.params
              /\ h.params = <<>> /\ Len(h.kids[1].kids) = 2
              /\ h.kids[1].kids[1].kids[1].kind = "Assign"
              /\ h.kids[1].kids[2] = ForwardingReturn(h.sym)
              /\ last.after.params = <<>>
              /\ Len(last.after.kids[1].kids) = 1
              /\ last.after.kids[1].kids[1] = ForwardingReturn(h.sym)
    /\ (last.handler = "fn_expr" /\ last.replaced)
       => /\ ThisKept(last.before.kids[1], IifeGenerator(last.after))
          /\ IifeGenerator(last.after).params = last.before.params
          /\ Len(last.after.kids) = 1
          /\ IifeFunction(last.after).params = <<>>
          /\ Len(IifeFunction(last.after).kids[1].kids) = 2
          /\ IifeFunction(last.after).kids[1].kids[1].kind = "VarDecl"
          /\ IifeFunction(last.after).kids[1].kids[1].sym = last.ref_name
          /\ IifeForwarding(last.after).params = <<>>
          /\ Len(IifeForwarding(last.after).kids[1].kids) = 1
          /\ IifeForwarding(last.after).kids[1].kids[1] = ForwardingReturn(last.ref_name)

\* `async function nf(u) { return await this.fetch(); }` as an expression:
\* the generator body yields this.fetch() and the wrapper takes no `_this`
C23_Witness ==
    /\ last.handler = "fn_expr" /\ last.replaced
    /\ last.before.kids = <<block(<<return_stmt(AwaitExpr(ThisFetch))>>)>>
    /\ IifeGenerator(last.after).kids =
          <<block(<<return_stmt(YieldExpr(ThisFetch, FALSE))>>)>>
    /\ "_this" \notin NamesUsed(last.after)

\* the same for a declaration
C23_WitnessDecl ==
    /\ last.handler = "fn_decl" /\ last.helper # <<>>
    /\ Occurs(ThisFetch, last.before)
    /\ Occurs(YieldExpr(ThisFetch, FALSE), GeneratorOf(last.helper[1]))
    /\ "_this" \notin NamesUsed(last.helper[1])

(***************************************************************************)
(* C24: in every step of a pass, entering a module body or a statement     *)
(* list pushes exactly one empty frame on the scope stack; leaving it pops *)
(* exactly the top frame, the frames below untouched, and every helper of  *)
(* the popped frame is in the list just left; any other step keeps the     *)
(* depth and at most appends the helper just returned to the top frame;    *)
(* the stack is never empty, so no helper is dropped; and when the pass    *)
(* ends the stack is the initial one: one frame, empty.                    *)
(***************************************************************************)
ScopeStep ==
    /\ Len(scopes) >= 1 /\ Len(scopes') >= 1
    /\ Entering({"Module", "Block"}) => scopes' = Append(scopes, <<>>)
    /\ Leaving({"Module", "Block"})
       => /\ Len(scopes) >= 2
          /\ scopes' = SubSeq(scopes, 1, Len(scopes) - 1)
          /\ \A i \in 1..Len(scopes[Len(scopes)]) :
                 \E j \in 1..Len(NodeAt(tree', Top.path).kids) :
                     NodeAt(tree', Top.path).kids[j] = scopes[Len(scopes)][i]
    /\ (stack # <<>> /\ ~Entering({"Module", "Block"}) /\ ~Leaving({"Module", "Block"}))
       => /\ Len(scopes') = Len(scopes)
          /\ SubSeq(scopes', 1, Len(scopes) - 1) = SubSeq(scopes, 1, Len(scopes) - 1)
          /\ \/ scopes'[Len(scopes)] = scopes[Len(scopes)]
             \/ /\ last'.handler = "fn_decl" /\ last'.helper # <<>>
                /\ scopes'[Len(scopes)] = Append(scopes[Len(scopes)], last'.helper[1])
          /\ (last' # last /\ last'.helper # <<>>)
             => scopes'[Len(scopes)] = Append(scopes[Len(scopes)], last'.helper[1])
    /\ stack' = <<>> => scopes' = << <<>> >>

C24_ScopeStackDiscipline == [][ScopeStep]_vars

\* three frames deep (root, module, a function body), with a helper waiting
\* in the frame of the body
C24_Witness ==
    /\ Len(scopes) = 3
    /\ Len(scopes[3]) = 1 /\ IsHelperShaped(scopes[3][1])
    /\ Len(OpenLists) = 2

(***************************************************************************)
(* C25: in every list of the output the helpers stand in the order of the  *)
(* declarations they belong to: the names of the helpers of a list, read   *)
(* in order, are the helper names of the list's forwarding declarations,   *)
(* read in order; and for the outermost list these are the async           *)
(* declarations with an await of their own of the input, in source order,  *)
(* whatever statements stand between them.                                 *)
(***************************************************************************)
IsForwardingDecl(item) ==
    /\ DeclOf(item).kind = "FnDecl"
    /\ IsForwardingTo(item, "_" \o DeclOf(item).sym)

IsRewrittenDecl(item) ==
    /\ DeclOf(item).kind = "FnDecl"
    /\ DeclOf(item).is_async /\ HasBody(DeclOf(item))
    /\ AwaitInScope(DeclOf(item).kids[1])

HelperNameSeq(list) ==
    LET hs == SelectSeq(list.kids, IsHelperShaped)
    IN  [i \in 1..Len(hs) |-> hs[i].sym]

ForwardingNameSeq(list) ==
    LET fs == SelectSeq(list.kids, IsForwardingDecl)
    IN  [i \in 1..Len(fs) |-> "_" \o DeclOf(fs[i]).sym]

SourceNameSeq(list) ==
    LET ds == SelectSeq(list.kids, IsRewrittenDecl)
    IN  [i \in 1..Len(ds) |-> "_" \o DeclOf(ds[i]).sym]

C25_HelpersInSourceOrder ==
    FirstPassDone
    => /\ \A p \in PathsOf(tree) :
              IsList(NodeAt(tree, p))
              => HelperNameSeq(NodeAt(tree, p)) = ForwardingNameSeq(NodeAt(tree, p))
       /\ HelperNameSeq(tree) = SourceNameSeq(input)
       /\ (Len(input.kids) = 1 /\ input.kids[1].kind = "Block")
          => HelperNameSeq(tree.kids[1]) = SourceNameSeq(input.kids[1])

\* { async function foo ...; x; async function baz ... } has become
\* { foo; x; baz; _foo; _baz }
C25_Witness ==
    /\ FirstPassDone
    /\ input = Module(<<block(<<FooDecl, expr_stmt(ident("x")),
                                 FnDecl("baz", TRUE, <<>>, <<expr_stmt(AwaitExpr(ThisFetch))>>)>>)>>)
    /\ Len(tree.kids[1].kids) = 5
    /\ HelperNameSeq(tree.kids[1]) = <<"_foo", "_baz">>
    /\ IsHelperShaped(tree.kids[1].kids[4]) /\ IsHelperShaped(tree.kids[1].kids[5])

(***************************************************************************)
(* C26 (as stated): after a pass over a tree in which every await lies in  *)
(* the body of an async function declaration, function expression, arrow   *)
(* or method, the output holds no await inside a function or arrow whose   *)
(* async flag is false.                                                    *)
(***************************************************************************)
IsFunctionNode(n) == n.kind \in FunctionHolders \cup {"Arrow"}

\* the function or arrow at prefix len of p is the innermost one around p
InnermostFunctionAt(t, p, len) ==
    /\ IsFunctionNode(NodeAt(t, Prefix(p, len)))
    /\ \A k \in (len + 1)..(Len(p) - 1) : ~IsFunctionNode(NodeAt(t, Prefix(p, k)))

AwaitPaths(t) == { p \in PathsOf(t) : NodeAt(t, p).kind = "Await" }

EveryAwaitInAsync(t) ==
    \A p \in AwaitPaths(t) :
        \E len \in 0..(Len(p) - 1) :
            InnermostFunctionAt(t, p, len) /\ NodeAt(t, Prefix(p, len)).is_async

NoAwaitInPlainFunction(t) ==
    \A p \in AwaitPaths(t) :
        \A len \in 0..(Len(p) - 1) :
            InnermostFunctionAt(t, p, len) => NodeAt(t, Prefix(p, len)).is_async

C26_OutputValid ==
    (FirstPassDone /\ EveryAwaitInAsync(input)) => NoAwaitInPlainFunction(tree)

\* the pass over `(async (u) => g(await x))` has ended with the arrow
\* `(u) => g(await x)`
C26_AwaitInPlainArrow ==
    /\ FirstPassDone
    /\ input = Module(<<expr_stmt(Arrow(TRUE, <<"u">>,
                            call_expr(ident("g"), <<AwaitExpr(ident("x"))>>)))>>)
    /\ EveryAwaitInAsync(input)
    /\ tree = Module(<<expr_stmt(Arrow(FALSE, <<"u">>,
                            call_expr(ident("g"), <<AwaitExpr(ident("x"))>>)))>>)

\* The same for programs without an expression-bodied async arrow.
C26_OutputValidButExprArrows ==
    (FirstPassDone /\ EveryAwaitInAsync(input)
     /\ \A p \in PathsOf(input) :
            ~(NodeAt(input, p).kind = "Arrow" /\ NodeAt(input, p).is_async
              /\ NodeAt(input, p).kids[1].kind # "Block"))
    => NoAwaitInPlainFunction(tree)

(***************************************************************************)
(* C27 (as stated): after one pass every function that has a body and was  *)
(* flagged async in the input has its flag cleared, wherever it occurs:    *)
(* declarations, function expressions, arrows, class and object methods,   *)
(* private class methods included.  The pass builds no async function, so  *)
(* an async function of the output is one of the input.                    *)
(***************************************************************************)
AsyncWithBody(t, kinds) ==
    { p \in PathsOf(t) : NodeAt(t, p).kind \in kinds /\ StillAsync(NodeAt(t, p)) }

C27_Coverage ==
    FirstPassDone => AsyncWithBody(tree, FunctionHolders \cup {"Arrow"}) = {}

\* the pass over `class K { async #load(u) { return await this.fetch(); } }`
\* has ended and the output is the input
C27_PrivateMethodStillAsync ==
    /\ FirstPassDone
    /\ input = Module(<<ClassDecl("K", <<PrivateLoad>>)>>)
    /\ AsyncWithBody(input, {"PrivateMethod"}) # {}
    /\ tree = input

\* The same for the kinds the walker has a handler for.
C27_CoverageOfHandledKinds ==
    FirstPassDone => AsyncWithBody(tree, ConstructKinds) = {}

(***************************************************************************)
(* C28: for every body, HasThisVisitor::check(body) is true exactly when   *)
(* ThisCaptureVisitor, applied to the body after the await rewriter,       *)
(* replaces at least one `this`; so the wrapper of a rewritten arrow takes *)
(* the parameter `_this` exactly when the generator body holds a `_this`   *)
(* the rewrite put there.                                                  *)
(***************************************************************************)
ReplacesSomeThis(body, out) ==
    \E p \in PathsOf(body) : p \in PathsOf(out) /\ ThisReplacedAt(body, out, p)

C28_ProbeAgreesWithRewriter ==
    /\ (last.handler = "create_generator_function" /\ last.capture_this)
       => /\ HasThisVisitor_check(last.before) <=> last.replaced
          /\ last.replaced <=> ReplacesSomeThis(last.before, last.after.kids[1])
    /\ (last.handler = "transform_arrow_fn" /\ last.replaced)
       => /\ IifeFunction(last.after).params \in {<<>>, <<Param("_this")>>}
          /\ IifeFunction(last.after).params = <<Param("_this")>>
             <=> ReplacesSomeThis(last.before.kids[1], IifeGenerator(last.after).kids[1])
          /\ IifeFunction(last.after).params = <<Param("_this")>>
             <=> HasThisVisitor_check(last.before.kids[1])

\* the arrow `async () => { await x; () => () => this.w; }` has been
\* rewritten: the only `this` of the body lies inside arrows, it is `_this`
\* in the generator, and the wrapper takes `_this`
C28_Witness ==
    /\ last.handler = "transform_arrow_fn" /\ last.replaced
    /\ last.before.kids[1] = block(<<expr_stmt(AwaitExpr(ident("x"))),
                                     expr_stmt(Arrow(FALSE, <<>>, Arrow(FALSE, <<>>, ThisW)))>>)
    /\ PathsOutside(last.before.kids[1], "This", {"Arrow"}) = {}
    /\ IifeFunction(last.after).params = <<Param("_this")>>
    /\ IifeGenerator(last.after).kids[1] =
           block(<<expr_stmt(YieldExpr(ident("x"), FALSE)),
                   expr_stmt(Arrow(FALSE, <<>>, Arrow(FALSE, <<>>,
                                 member_expr(ident("_this"), "w"))))>>)

\* the builder was asked to capture for a body whose only `this` lies in a
\* function expression: the probe is false and nothing was replaced
C28_WitnessNone ==
    /\ last.handler = "create_generator_function" /\ last.capture_this
    /\ Occurs(ThisExpr, last.before)
    /\ ~HasThisVisitor_check(last.before)
    /\ ~last.replaced
    /\ last.after.kids[1] = AwaitToYieldVisitor(last.before)

(***************************************************************************)
(* C29 (as stated): the walker of lib.rs and the walker of visitor.rs      *)
(* produce the same output tree for every input tree, including for async  *)
(* constructs without an await and for async arrows that refer to `this`.  *)
(* Both walkers are run over the same program: first the walker of         *)
(* visitor.rs, then, from the input again, the walker of lib.rs.           *)
(***************************************************************************)
BothInputs ==
    { Module(<<st>>) : st \in { expr_stmt(e) : e \in LeafExprs } \cup Stmts1 }
    \cup BodylessModules \cup PrivateMethodModules \cup NamedFnExprModules
    \cup ParamMethodModules \cup ArrowModules

BothInit ==
    /\ tree \in BothInputs
    /\ input = tree
    /\ stack = <<Frame(<<>>, "enter")>>
    /\ scopes = ScopeStack_new
    /\ count = 0
    /\ pass = 1
    /\ first = <<>>
    /\ refs = <<>>
    /\ splice = NoSplice
    /\ last = NoCall

\* process_transform: program.visit_mut_with(&mut AsyncToNgGeneratorVisitor::new())
\* of lib.rs, on the input; `first` keeps the output of the other walker
RunLibOnInput ==
    /\ Done
    /\ pass = 1
    /\ pass' = 2
    /\ first' = <<tree>>
    /\ tree' = input
    /\ stack' = <<Frame(<<>>, "enter")>>
    /\ scopes' = ScopeStack_new
    /\ count' = 0
    /\ UNCHANGED <<input, refs, splice, last>>

\* the walker of visitor.rs runs while pass = 1, the walker of lib.rs while
\* pass = 2
BothNext ==
    \/ pass = 1 /\ VisitModuleItemsEnter
    \/ pass = 1 /\ VisitModuleItemsExit
    \/ pass = 1 /\ VisitStmtsEnter
    \/ pass = 1 /\ VisitStmtsExit
    \/ pass = 1 /\ VisitChildren
    \/ pass = 1 /\ VisitDefault
    \/ pass = 1 /\ VisitFnDecl
    \/ pass = 1 /\ VisitExprArrow
    \/ pass = 1 /\ VisitExprFn
    \/ pass = 1 /\ VisitExprOther
    \/ pass = 1 /\ VisitClassMethod
    \/ pass = 1 /\ VisitProp
    \/ RunLibOnInput
    \/ pass = 2 /\ LibVisitModuleItemsEnter
    \/ pass = 2 /\ LibVisitModuleItemsExit
    \/ pass = 2 /\ LibVisitStmtsEnter
    \/ pass = 2 /\ LibVisitStmtsExit
    \/ pass = 2 /\ VisitChildren
    \/ pass = 2 /\ VisitDefault
    \/ pass = 2 /\ LibVisitFnDecl
    \/ pass = 2 /\ LibVisitExprArrow
    \/ pass = 2 /\ LibVisitExprFn
    \/ pass = 2 /\ VisitExprOther
    \/ pass = 2 /\ LibVisitClassMethod
    \/ pass = 2 /\ LibVisitProp

SpecBoth == BothInit /\ [][BothNext]_vars

BothDone == Done /\ pass = 2

C29_WalkersAgree == BothDone => tree = first[1]

\* both walkers have run over `(async (u) => x);`: the walker of visitor.rs
\* has left `((u) => x);`, the walker of lib.rs a wrapper expression
C29_DifferWithoutAwait ==
    /\ BothDone
    /\ input = Module(<<expr_stmt(Arrow(TRUE, <<"u">>, ident("x")))>>)
    /\ first[1] = Module(<<expr_stmt(Arrow(FALSE, <<"u">>, ident("x")))>>)
    /\ tree.kids[1].kids[1].kind = "Call"
    /\ IifeGenerator(tree.kids[1].kids[1]).is_generator

\* both walkers have run over `var f = async (u, v) => await this.g(await u, v);`:
\* `this` is `_this` in the generator of visitor.rs and `this` in that of lib.rs
C29_DifferOnThis ==
    /\ BothDone
    /\ input = Module(<<var_decl("f", Arrow(TRUE, <<"u", "v">>,
                                            DeepAwait(member_expr(ThisExpr, "g"))))>>)
    /\ ~Occurs(ThisExpr, IifeGenerator(first[1].kids[1].kids[1]))
    /\ Occurs(ident("_this"), IifeGenerator(first[1].kids[1].kids[1]))
    /\ Occurs(ThisExpr, IifeGenerator(tree.kids[1].kids[1]))
    /\ ~Occurs(ident("_this"), tree)

\* The same for programs in which every async construct has a body with an
\* await of its own (an expression body being itself an await) and no async
\* arrow refers to `this`.
AsyncConstructPaths(t) ==
    { p \in PathsOf(t) : NodeAt(t, p).kind \in ConstructKinds /\ NodeAt(t, p).is_async }

C29_AgreeOnPlainRewrites ==
    (BothDone
     /\ \A p \in AsyncConstructPaths(input) :
            /\ HasBody(NodeAt(input, p))
            /\ HasAwaitVisitor(NodeAt(input, p).kids[1])
            /\ NodeAt(input, p).kids[1].kind \in {"Block", "Await"}
            /\ NodeAt(input, p).kind = "Arrow" => ~RefersToThis(NodeAt(input, p).kids[1]))
    => tree = first[1]

(***************************************************************************)
(* C30 (as stated): after a construct transformer has made a structural    *)
(* rewrite, the function that stays in place of the construct (the         *)
(* rewritten declaration, the forwarding function expression, the          *)
(* rewritten method) is neither async nor a generator, whatever the        *)
(* generator flag of the input construct was; the function passed to       *)
(* `_ngAsyncToGenerator` is a generator.                                   *)
(***************************************************************************)
TransformerNames == {"fn_decl", "fn_expr", "arrow", "class_method", "object_method"}

\* the transformer did more than clear the async flag
StructuralRewrite(c) ==
    /\ c.handler \in TransformerNames
    /\ c.before.is_async
    /\ c.after # c.before
    /\ c.after # [c.before EXCEPT !.is_async = FALSE]

ForwardingOf(c) ==
    IF c.handler \in {"fn_expr", "arrow"} THEN IifeForwarding(c.after) ELSE c.after

InnerGeneratorOf(c) ==
    IF c.handler = "fn_decl" THEN GeneratorOf(c.helper[1])
    ELSE IF c.handler \in {"fn_expr", "arrow"} THEN IifeGenerator(c.after)
    ELSE MethodGenerator(c.after)

C30_ForwardingIsPlain ==
    StructuralRewrite(last)
    => /\ ~ForwardingOf(last).is_async
       /\ ~ForwardingOf(last).is_generator
       /\ InnerGeneratorOf(last).is_generator
       /\ ~InnerGeneratorOf(last).is_async

\* transform_class_method has rewritten
\* `async *load(u) { return await this.fetch(); }` and the method left in the
\* class is `*load() { var _this = this; return _ngAsyncToGenerator(...)(); }`
C30_MethodStillGenerator ==
    /\ StructuralRewrite(last)
    /\ last.handler = "class_method"
    /\ last.before = AsyncGenerator(ClassMethod("load", TRUE, Params(<<"u">>),
                                                <<return_stmt(AwaitExpr(ThisFetch))>>))
    /\ ~last.after.is_async
    /\ last.after.is_generator
    /\ last.after.kids[1].kids[1] = this_capture
    /\ MethodGenerator(last.after).is_generator

\* The same for declarations, function expressions and arrows.
C30_ForwardingIsPlainButMethods ==
    (StructuralRewrite(last) /\ last.handler \in {"fn_decl", "fn_expr", "arrow"})
    => /\ ~ForwardingOf(last).is_async
       /\ ~ForwardingOf(last).is_generator
       /\ InnerGeneratorOf(last).is_generator
       /\ ~InnerGeneratorOf(last).is_async

\* transform_fn_decl has rewritten `async function* gen(a) { await x; }`
C30_DeclGeneratorFlagCleared ==
    /\ StructuralRewrite(last)
    /\ last.handler = "fn_decl"
    /\ last.before.is_generator
    /\ ~last.after.is_generator

====
